---- MODULE Spec2Model ----
(***************************************************************************)
(* Evidence validation and weight pruning of course skill mappings:        *)
(* scripts/assign_a5.py, scripts/validate_tools.py and                     *)
(* scripts/cleanup_skills.py, run over course_skill_mappings.json with     *)
(* course_profiles.json as the read-only lookup, and the classifier step   *)
(* scripts/map_skills.py that writes course_skill_mappings.json.           *)
(*                                                                         *)
(* Strings whose characters the code inspects (names, topics, tool names,  *)
(* syllabus text, skill codes) are sequences of one-character strings.     *)
(* Weights are in tenths: 0.8 is 8, 0.3 is 3, 0 is 0.                      *)
(***************************************************************************)
EXTENDS Integers, Sequences, FiniteSets, TLC

VARIABLES
  mappings,               \* course_skill_mappings.json: sequence of course records
  profiles,               \* course_profiles.json: sequence of profile records
  removals,               \* cleanup_skills.py: the removal log of the last pruning run
  primary_assignments,    \* assign_a5.py: audit list of the last assignment run
  secondary_assignments,  \* assign_a5.py: audit list of the last assignment run
  tool_removed,           \* validate_tools.py: (course, tool) removals printed by the last run
  found,                  \* validate_tools.py: tool_found_in on the store's tools and texts
  lastOp,                 \* the script run last: "none", "assign", "validate", "prune"
  prevOp,                 \* the script run before that
  prev,                   \* mappings as the last run loaded them
  initial,                \* mappings as the upstream classifier left them
  pipe,                   \* how many steps of assign, validate, prune, assign, ... ran from the start
  snap,                   \* mappings after the first full pipeline (pipe = 3)
  pc,                     \* map_skills.py: "idle", "loop", "done", "aborted" or "exited"
  run_mappings,           \* map_skills.py: the list `mappings` of main()
  remaining,              \* map_skills.py: the courses the loop has not reached yet
  parsed_output,          \* map_skills.py: what the last messages.parse call returned
  calls,                  \* the course ids given to map_course since main() started
  outcome                 \* how the last loop iteration of map_skills.py ended

vars == << mappings, profiles, removals, primary_assignments, secondary_assignments,
           tool_removed, found, lastOp, prevOp, prev, initial, pipe, snap,
           pc, run_mappings, remaining, parsed_output, calls, outcome >>

(***************************************************************************)
(* Characters and strings                                                  *)
(***************************************************************************)
UPPER == <<"A","B","C","D","E","F","G","H","I","J","K","L","M",
           "N","O","P","Q","R","S","T","U","V","W","X","Y","Z">>
LOWER == <<"a","b","c","d","e","f","g","h","i","j","k","l","m",
           "n","o","p","q","r","s","t","u","v","w","x","y","z">>
DIGITS == {"0","1","2","3","4","5","6","7","8","9"}
UpperSet == {UPPER[i] : i \in 1..26}
LowerSet == {LOWER[i] : i \in 1..26}

\* str.lower() on one character
LowerOf == [c \in UpperSet |-> LOWER[CHOOSE i \in 1..26 : UPPER[i] = c]]
LowerChar(c) == IF c \in UpperSet THEN LowerOf[c] ELSE c

\* a str.lower() that leaves every character as it is
Lower_Identity(s) == s

\* str.lower()
Lower(s) == [i \in 1..Len(s) |-> LowerChar(s[i])]

\* regex \s
IsSpace(c) == c \in {" ", "\t", "\n", "\r"}

\* regex \w
WordChars == UpperSet \cup LowerSet \cup DIGITS \cup {"_"}
IsWord(c) == c \in WordChars

\* s[i:j] for 0 <= i <= j <= len(s) (0-based, end exclusive)
Slice(s, i, j) == [k \in 1..(j - i) |-> s[i + k]]

\* s.startswith(p, i): p occurs in s at 0-based offset i
MatchAt(s, p, i) ==
  /\ i >= 0
  /\ i + Len(p) <= Len(s)
  /\ \A k \in 1..Len(p) : s[i + k] = p[k]

\* p in s
Contains(s, p) == \E i \in 0..(Len(s) - Len(p)) : MatchAt(s, p, i)

\* any(kw in s for kw in kws)
ContainsAny(s, kws) == \E kw \in kws : Contains(s, kw)

\* str.strip()
RECURSIVE LStrip(_)
LStrip(s) == IF s # <<>> /\ IsSpace(s[1]) THEN LStrip(Tail(s)) ELSE s
RECURSIVE RStrip(_)
RStrip(s) ==
  IF s # <<>> /\ IsSpace(s[Len(s)]) THEN RStrip(SubSeq(s, 1, Len(s) - 1)) ELSE s
Strip(s) == RStrip(LStrip(s))

\* str.split(","): the pieces between the commas, in order
RECURSIVE SplitComma(_, _)
SplitComma(s, cur) ==
  IF s = <<>> THEN <<cur>>
  ELSE IF s[1] = "," THEN <<cur>> \o SplitComma(Tail(s), <<>>)
  ELSE SplitComma(Tail(s), Append(cur, s[1]))

Range(f) == {f[i] : i \in DOMAIN f}

(***************************************************************************)
(* Weights and skill codes                                                 *)
(***************************************************************************)
PRIMARY == 8      \* weight 0.8
SECONDARY == 3    \* weight 0.3

A1 == <<"A","1">>
A2 == <<"A","2">>
A3 == <<"A","3">>
A5 == <<"A","5">>
B1 == <<"B","1">>
B2 == <<"B","2">>
C1 == <<"C","1">>
E1 == <<"E","1">>
E2 == <<"E","2">>

Skill(code, weight) == [code |-> code, weight |-> weight]

(***************************************************************************)
(* cleanup_skills.py: topic sets and keyword lists                         *)
(***************************************************************************)
PM_AI_TOPICS ==
  { <<"A","I">>,   \* 'AI'
    <<"A","g","e","n","t","i","c"," ","A","I">>,   \* 'Agentic AI'
    <<"P","r","o","d","u","c","t"," ","S","t","r","a","t","e","g","y">>,   \* 'Product Strategy'
    <<"P","r","o","d","u","c","t"," ","M","a","n","a","g","e","m","e","n","t"," ","C","e","r","t","i","f","i","c","a","t","i","o","n","s">>,   \* 'Product Management Certifications'
    <<"W","o","r","k","i","n","g"," ","w","i","t","h"," ","L","L","M","s">>,   \* 'Working with LLMs'
    <<"D","e","v","e","l","o","p","i","n","g"," ","A","I"," ","M","o","d","e","l","s">>,   \* 'Developing AI Models'
    <<"M","a","c","h","i","n","e"," ","L","e","a","r","n","i","n","g">>,   \* 'Machine Learning'
    <<"A","I"," ","E","v","a","l","s">>,   \* 'AI Evals'
    <<"R","A","G">>,   \* 'RAG'
    <<"S","y","s","t","e","m"," ","D","e","s","i","g","n">>,   \* 'System Design'
    <<"A","P","I","s">>,   \* 'APIs'
    <<"P","r","o","t","o","t","y","p","i","n","g">>,   \* 'Prototyping'
    <<"C","o","d","i","n","g"," ","w","i","t","h"," ","A","I">>,   \* 'Coding with AI'
    <<"A","/","B"," ","T","e","s","t","i","n","g">>,   \* 'A/B Testing'
    <<"E","x","p","e","r","i","m","e","n","t","a","t","i","o","n">>,   \* 'Experimentation'
    <<"S","e","c","u","r","i","t","y">>,   \* 'Security'
    <<"D","a","t","a"," ","A","n","a","l","y","s","i","s">>,   \* 'Data Analysis'
    <<"O","p","t","i","m","i","z","a","t","i","o","n">>,   \* 'Optimization'
    <<"P","r","o","j","e","c","t"," ","M","a","n","a","g","e","m","e","n","t">>,   \* 'Project Management'
    <<"G","r","o","w","t","h">>,   \* 'Growth'
    <<"B","2","B">>,   \* 'B2B'
    <<"P","r","o","d","u","c","t","i","v","i","t","y">>,   \* 'Productivity'
    <<"S","t","r","a","t","e","g","y">>,   \* 'Strategy'
    <<"U","s","e","r"," ","R","e","s","e","a","r","c","h">> }   \* 'User Research'

DESIGN_TOPICS ==
  { <<"D","e","s","i","g","n">>,   \* 'Design'
    <<"D","e","s","i","g","n"," ","S","y","s","t","e","m","s">>,   \* 'Design Systems'
    <<"D","e","s","i","g","n"," ","S","p","r","i","n","t","s">>,   \* 'Design Sprints'
    <<"F","i","g","m","a">>,   \* 'Figma'
    <<"U","X">>,   \* 'UX'
    <<"H","e","a","l","t","h","c","a","r","e">> }   \* 'Healthcare'

TECHNICAL_AI_TOPICS ==
  { <<"A","I">>,   \* 'AI'
    <<"A","g","e","n","t","i","c"," ","A","I">>,   \* 'Agentic AI'
    <<"W","o","r","k","i","n","g"," ","w","i","t","h"," ","L","L","M","s">>,   \* 'Working with LLMs'
    <<"D","e","v","e","l","o","p","i","n","g"," ","A","I"," ","M","o","d","e","l","s">>,   \* 'Developing AI Models'
    <<"M","a","c","h","i","n","e"," ","L","e","a","r","n","i","n","g">>,   \* 'Machine Learning'
    <<"A","I"," ","E","v","a","l","s">>,   \* 'AI Evals'
    <<"R","A","G">>,   \* 'RAG'
    <<"S","y","s","t","e","m"," ","D","e","s","i","g","n">>,   \* 'System Design'
    <<"A","P","I","s">>,   \* 'APIs'
    <<"C","o","d","i","n","g"," ","w","i","t","h"," ","A","I">>,   \* 'Coding with AI'
    <<"P","r","o","t","o","t","y","p","i","n","g">>,   \* 'Prototyping'
    <<"D","a","t","a"," ","A","n","a","l","y","s","i","s">>,   \* 'Data Analysis'
    <<"P","r","o","g","r","a","m","m","i","n","g">>,   \* 'Programming'
    <<"S","e","c","u","r","i","t","y">> }   \* 'Security'

EVAL_KEYWORDS ==
  { <<"e","v","a","l">>,   \* 'eval'
    <<"t","e","s","t">>,   \* 'test'
    <<"a","/","b">>,   \* 'a/b'
    <<"e","x","p","e","r","i","m","e","n","t">>,   \* 'experiment'
    <<"m","e","a","s","u","r","e">>,   \* 'measure'
    <<"m","e","t","r","i","c">>,   \* 'metric'
    <<"q","u","a","l","i","t","y">>,   \* 'quality'
    <<"f","o","r","e","c","a","s","t">> }   \* 'forecast'

\* Rule 3: the three topics tested by has_eval_topic
EVAL_TOPICS ==
  { <<"A","I"," ","E","v","a","l","s">>,   \* 'AI Evals'
    <<"A","/","B"," ","T","e","s","t","i","n","g">>,   \* 'A/B Testing'
    <<"E","x","p","e","r","i","m","e","n","t","a","t","i","o","n">> }   \* 'Experimentation'

\* Rule 1: pm_name_keywords
PM_NAME_KEYWORDS_R1 ==
  { <<"p","r","o","d","u","c","t">>,   \* 'product'
    <<"p","m"," ">>,   \* 'pm '
    <<"a","i"," ">>,   \* 'ai '
    <<"a","r","t","i","f","i","c","i","a","l"," ","i","n","t","e","l","l","i","g","e","n","c","e">>,   \* 'artificial intelligence'
    <<"a","g","e","n","t">>,   \* 'agent'
    <<"l","l","m">>,   \* 'llm'
    <<"p","r","o","t","o","t","y","p","e">>,   \* 'prototype'
    <<"e","v","a","l">>,   \* 'eval'
    <<"s","t","r","a","t","e","g","y">> }   \* 'strategy'

\* Rule 2: pm_name_keywords (with "pricing")
PM_NAME_KEYWORDS_R2 ==
  { <<"p","r","o","d","u","c","t">>,   \* 'product'
    <<"p","m"," ">>,   \* 'pm '
    <<"a","i"," ">>,   \* 'ai '
    <<"a","r","t","i","f","i","c","i","a","l"," ","i","n","t","e","l","l","i","g","e","n","c","e">>,   \* 'artificial intelligence'
    <<"a","g","e","n","t">>,   \* 'agent'
    <<"l","l","m">>,   \* 'llm'
    <<"p","r","o","t","o","t","y","p","e">>,   \* 'prototype'
    <<"e","v","a","l">>,   \* 'eval'
    <<"s","t","r","a","t","e","g","y">>,   \* 'strategy'
    <<"p","r","i","c","i","n","g">> }   \* 'pricing'

\* Rule 4: the design keywords of name_has_design
DESIGN_NAME_KW ==
  { <<"d","e","s","i","g","n">>,   \* 'design'
    <<"u","x">>,   \* 'ux'
    <<"f","i","g","m","a">>,   \* 'figma'
    <<"v","i","s","u","a","l">>,   \* 'visual'
    <<"u","i">> }   \* 'ui'

\* Rule 5: tech_name_kw
TECH_NAME_KW ==
  { <<"e","n","g","i","n","e","e","r">>,   \* 'engineer'
    <<"t","e","c","h","n","i","c","a","l">>,   \* 'technical'
    <<"a","p","i">>,   \* 'api'
    <<"c","o","d","e">>,   \* 'code'
    <<"b","u","i","l","d">>,   \* 'build'
    <<"s","y","s","t","e","m">>,   \* 'system'
    <<"a","r","c","h","i","t","e","c","t">>,   \* 'architect'
    <<"r","a","g">>,   \* 'rag'
    <<"a","g","e","n","t">>,   \* 'agent'
    <<"l","l","m">>,   \* 'llm'
    <<"m","o","d","e","l">>,   \* 'model'
    <<"m","l"," ">>,   \* 'ml '
    <<"d","a","t","a">> }   \* 'data'

FIGMA == <<"F","i","g","m","a">>
(***************************************************************************)
(* Profile lookup (all three scripts)                                      *)
(***************************************************************************)
\* the {} default of prof_by_id.get(course_id, {}): every .get on it gives its default
NoProfile == [course_id |-> 0, topics |-> <<>>, syllabus_text |-> <<>>]

\* prof_by_id = {p["course_id"]: p for p in profiles}; prof_by_id.get(course_id, {})
prof_by_id(course_id) ==
  LET idx == {i \in DOMAIN profiles : profiles[i].course_id = course_id}
  IN IF idx = {} THEN NoProfile
     ELSE profiles[CHOOSE i \in idx : \A j \in idx : j <= i]

\* set(t.strip() for t in topics.split(",") if t.strip())
ParseTopics(topics) ==
  {Strip(t) : t \in {x \in Range(SplitComma(topics, <<>>)) : Strip(x) # <<>>}}

(***************************************************************************)
(* cleanup_skills.py                                                       *)
(***************************************************************************)
\* a get_topics that gives a course without a profile the topics of the
\* first profile of the file
get_topics_FirstProfile(course_id) ==
  IF profiles # <<>> /\ \A k \in DOMAIN profiles : profiles[k].course_id # course_id
  THEN ParseTopics(profiles[1].topics)
  ELSE ParseTopics(prof_by_id(course_id).topics)

\* get_topics(course_id)
get_topics(course_id) == ParseTopics(prof_by_id(course_id).topics)

has_skill_at(skills, code, weight) ==
  \E i \in DOMAIN skills : skills[i].code = code /\ skills[i].weight = weight

\* s.startswith(prefix)
StartsWith(s, prefix) == MatchAt(s, prefix, 0)

has_any_skill_starting_with_at(skills, prefix, weight) ==
  \E i \in DOMAIN skills :
    StartsWith(skills[i].code, prefix) /\ skills[i].weight = weight

\* a remove_skill that matches the category letter of the code
remove_skill_ByPrefix(skills, code, weight) ==
  SelectSeq(skills, LAMBDA s : ~(s.code[1] = code[1]))

\* [s for s in skills if not (s["code"] == code and s["weight"] == weight)]
remove_skill(skills, code, weight) ==
  SelectSeq(skills, LAMBDA s : ~(s.code = code /\ s.weight = weight))

\* one tuple of the removals list: (cid, name, code, weight, f"topics={topics}")
Removal(m, code, weight, topics) ==
  [course_id |-> m.course_id, course_name |-> m.course_name,
   code |-> code, weight |-> weight, topics |-> topics]

\* a removal that is not logged
Remove_NoLog(st, m, code, weight, topics) ==
  [skills |-> remove_skill(st.skills, code, weight), removals |-> st.removals]

\* removals.append(...); skills = remove_skill(skills, code, weight)
Remove(st, m, code, weight, topics) ==
  [skills |-> remove_skill(st.skills, code, weight),
   removals |-> Append(st.removals, Removal(m, code, weight, topics))]

has_pm_topic(topics) == topics \cap PM_AI_TOPICS # {}
has_design_topic(topics) == topics \cap DESIGN_TOPICS # {}
has_technical_topic(topics) == topics \cap TECHNICAL_AI_TOPICS # {}

\* Rule 1 whose "other A-skill" test accepts an A-skill at any weight
Rule1_AnyWeight(m, topics, st) ==
  LET skills == st.skills
      other_a ==
        \E i \in DOMAIN skills :
          StartsWith(skills[i].code, <<"A">>) /\ skills[i].code # A1
      name_has_pm == ContainsAny(Lower(m.course_name), PM_NAME_KEYWORDS_R1)
  IN IF /\ has_skill_at(skills, A1, PRIMARY)
        /\ ~has_pm_topic(topics) /\ ~other_a /\ ~name_has_pm
     THEN Remove(st, m, A1, PRIMARY, topics)
     ELSE st

\* Rule 1: remove A1@0.8 unless a PM/AI topic, another A-skill at 0.8 or a PM keyword
Rule1(m, topics, st) ==
  LET skills == st.skills
      name_lower == Lower(m.course_name)
      other_a_08 ==
        \E i \in DOMAIN skills :
          /\ StartsWith(skills[i].code, <<"A">>)
          /\ skills[i].code # A1
          /\ skills[i].weight = PRIMARY
      name_has_pm == ContainsAny(name_lower, PM_NAME_KEYWORDS_R1)
  IN IF /\ has_skill_at(skills, A1, PRIMARY)
        /\ ~has_pm_topic(topics) /\ ~other_a_08 /\ ~name_has_pm
     THEN Remove(st, m, A1, PRIMARY, topics)
     ELSE st

\* Rule 2 without the "any A-skill at 0.8" keep condition
Rule2_NoPrefixKeep(m, topics, st) ==
  LET name_lower == Lower(m.course_name)
      name_has_pm == ContainsAny(name_lower, PM_NAME_KEYWORDS_R2)
  IN IF /\ has_skill_at(st.skills, A1, SECONDARY)
        /\ ~has_pm_topic(topics)
        /\ ~name_has_pm
     THEN Remove(st, m, A1, SECONDARY, topics)
     ELSE st

\* Rule 2: remove A1@0.3 unless a PM/AI topic, any A-skill at 0.8 or a PM keyword
Rule2(m, topics, st) ==
  LET skills == st.skills
      name_lower == Lower(m.course_name)
      has_a_08 == has_any_skill_starting_with_at(skills, <<"A">>, PRIMARY)
      name_has_pm == ContainsAny(name_lower, PM_NAME_KEYWORDS_R2)
  IN IF /\ has_skill_at(skills, A1, SECONDARY)
        /\ ~has_pm_topic(topics) /\ ~has_a_08
        /\ ~name_has_pm
     THEN Remove(st, m, A1, SECONDARY, topics)
     ELSE st

\* Rule 3 without the "strong AI context" keep condition
Rule3_NoStrongAI(m, topics, st) ==
  LET skills == st.skills
      name_has_eval == ContainsAny(Lower(m.course_name), EVAL_KEYWORDS)
      has_eval_topic == topics \cap EVAL_TOPICS # {}
  IN IF /\ has_skill_at(skills, A3, SECONDARY)
        /\ ~has_skill_at(skills, A3, PRIMARY) /\ ~name_has_eval /\ ~has_eval_topic
     THEN Remove(st, m, A3, SECONDARY, topics)
     ELSE st

\* Rule 3: remove A3@0.3 unless A3@0.8, an eval keyword, an eval topic or strong AI context
Rule3(m, topics, st) ==
  LET skills == st.skills
      name_lower == Lower(m.course_name)
      has_a3_08 == has_skill_at(skills, A3, PRIMARY)
      name_has_eval == ContainsAny(name_lower, EVAL_KEYWORDS)
      has_eval_topic == topics \cap EVAL_TOPICS # {}
      has_strong_ai == has_pm_topic(topics) /\ has_technical_topic(topics)
  IN IF /\ has_skill_at(skills, A3, SECONDARY)
        /\ ~has_a3_08 /\ ~name_has_eval /\ ~has_eval_topic
        /\ ~has_strong_ai
     THEN Remove(st, m, A3, SECONDARY, topics)
     ELSE st

\* Rule 4: remove E1@0.3 unless E1@0.8, a design topic, a design keyword or the Figma tool
Rule4(m, topics, st) ==
  LET skills == st.skills
      name_lower == Lower(m.course_name)
      has_e1_08 == has_skill_at(skills, E1, PRIMARY)
      name_has_design == ContainsAny(name_lower, DESIGN_NAME_KW)
      tools_have_figma == FIGMA \in Range(m.tools)
  IN IF /\ has_skill_at(skills, E1, SECONDARY)
        /\ ~has_e1_08 /\ ~has_design_topic(topics) /\ ~name_has_design
        /\ ~tools_have_figma
     THEN Remove(st, m, E1, SECONDARY, topics)
     ELSE st

\* a Rule 5 loop body that removes nothing once the pass has removed a B-skill
Rule5Step_FirstOnly(m, topics, s, st) ==
  LET has_b_08 == has_any_skill_starting_with_at(st.skills, <<"B">>, PRIMARY)
      name_has_tech == ContainsAny(Lower(m.course_name), TECH_NAME_KW)
      removed_one == \E k \in DOMAIN st.removals : StartsWith(st.removals[k].code, <<"B">>)
  IN IF /\ StartsWith(s.code, <<"B">>) /\ s.weight = SECONDARY
        /\ ~has_technical_topic(topics) /\ ~has_b_08
        /\ ~name_has_tech /\ ~removed_one
     THEN Remove(st, m, s.code, SECONDARY, topics)
     ELSE st

\* Rule 5, one iteration of "for s in list(skills)": has_b_08 is read from the
\* current skills, s from the copy taken before the loop
Rule5Step(m, topics, s, st) ==
  LET name_lower == Lower(m.course_name)
      has_b_08 == has_any_skill_starting_with_at(st.skills, <<"B">>, PRIMARY)
      name_has_tech == ContainsAny(name_lower, TECH_NAME_KW)
  IN IF /\ StartsWith(s.code, <<"B">>) /\ s.weight = SECONDARY
        /\ ~has_technical_topic(topics) /\ ~has_b_08
        /\ ~name_has_tech
     THEN Remove(st, m, s.code, SECONDARY, topics)
     ELSE st

RECURSIVE Rule5Loop(_, _, _, _)
Rule5Loop(m, topics, copy, st) ==
  IF copy = <<>> THEN st
  ELSE Rule5Loop(m, topics, Tail(copy), Rule5Step(m, topics, Head(copy), st))

\* Rule 5 with a "break" after the first B-skill@0.3 it looks at
Rule5_Break(m, topics, st) ==
  LET B3 == { i \in DOMAIN st.skills :
                StartsWith(st.skills[i].code, <<"B">>) /\ st.skills[i].weight = SECONDARY }
  IN IF B3 = {} THEN st
     ELSE Rule5Step(m, topics, st.skills[CHOOSE i \in B3 : \A j \in B3 : i <= j], st)

\* Rule 5: remove B-skills@0.3 in one pass over list(skills)
Rule5(m, topics, st) == Rule5Loop(m, topics, st.skills, st)

\* the body of "for m in mappings": Rules 1 to 5 in the coded order
PruneCourse(m) ==
  LET topics == get_topics(m.course_id)
      st0 == [skills |-> m.skills, removals |-> <<>>]
  IN Rule5(m, topics, Rule4(m, topics, Rule3(m, topics,
       Rule2(m, topics, Rule1(m, topics, st0)))))

\* the loop over mappings, visiting the courses in `order`; m["skills"] = skills
RECURSIVE PruneLoop(_, _, _)
PruneLoop(order, ms, log) ==
  IF order = <<>> THEN [mappings |-> ms, removals |-> log]
  ELSE LET i == Head(order)
           r == PruneCourse(ms[i])
       IN PruneLoop(Tail(order), [ms EXCEPT ![i].skills = r.skills],
                    log \o r.removals)

(***************************************************************************)
(* Regular expressions (Python re), as far as the scripts use them.        *)
(* A pattern is a sequence of items; Ends(t, pat, i) is the set of 0-based *)
(* offsets at which a match of pat starting at offset i of t can end, so   *)
(* re.search(pat, t) is truthy iff some Ends(t, pat, i) is non-empty.      *)
(* Under re.I the text is lower-cased and the pattern written lower-case.  *)
(***************************************************************************)
Lit(s) == [kind |-> "lit", s |-> s]                \* literal text
Space0 == [kind |-> "space*"]                      \* \s*
Space1 == [kind |-> "space+"]                      \* \s+
WordB == [kind |-> "wordb"]                        \* \b
Alt(pats) == [kind |-> "alt", pats |-> pats]       \* (?:p1|p2|...)
Opt(pat) == [kind |-> "alt", pats |-> <<pat, <<>> >>]   \* (?:p)?
OneOf(cs) == [kind |-> "class", cs |-> cs]         \* [...]
SpaceC == [kind |-> "space"]                       \* \s
Digit == [kind |-> "digit"]                        \* \d
Bos == [kind |-> "bos"]                            \* ^
Eos == [kind |-> "eos"]                            \* $
DotUpTo(n) == [kind |-> "dots", n |-> n]           \* .{0,n}

\* \b at offset i: exactly one side is a word character
AtWordBoundary(t, i) ==
  (i > 0 /\ IsWord(t[i])) # (i < Len(t) /\ IsWord(t[i + 1]))

\* $ at offset i: the end, or just before a final newline
AtEnd(t, i) == i = Len(t) \/ (i = Len(t) - 1 /\ t[Len(t)] = "\n")

RECURSIVE Ends(_, _, _)
Ends(t, pat, i) ==
  IF Len(pat) = 0 THEN {i}
  ELSE
    LET h == Head(pat)
        rest == Tail(pat)
        After(J) == UNION {Ends(t, rest, j) : j \in J}
    IN CASE h.kind = "lit" ->
              IF MatchAt(t, h.s, i) THEN Ends(t, rest, i + Len(h.s)) ELSE {}
         [] h.kind = "space*" ->
              After({j \in i..Len(t) : \A k \in (i + 1)..j : IsSpace(t[k])})
         [] h.kind = "space+" ->
              After({j \in (i + 1)..Len(t) : \A k \in (i + 1)..j : IsSpace(t[k])})
         [] h.kind = "wordb" ->
              IF AtWordBoundary(t, i) THEN Ends(t, rest, i) ELSE {}
         [] h.kind = "alt" ->
              After(UNION {Ends(t, h.pats[a], i) : a \in DOMAIN h.pats})
         [] h.kind = "class" ->
              IF i < Len(t) /\ t[i + 1] \in h.cs THEN Ends(t, rest, i + 1) ELSE {}
         [] h.kind = "space" ->
              IF i < Len(t) /\ IsSpace(t[i + 1]) THEN Ends(t, rest, i + 1) ELSE {}
         [] h.kind = "digit" ->
              IF i < Len(t) /\ t[i + 1] \in DIGITS THEN Ends(t, rest, i + 1) ELSE {}
         [] h.kind = "bos" ->
              IF i = 0 THEN Ends(t, rest, i) ELSE {}
         [] h.kind = "eos" ->
              IF AtEnd(t, i) THEN Ends(t, rest, i) ELSE {}
         [] h.kind = "dots" ->
              After({j \in i..Len(t) :
                       j - i <= h.n /\ \A k \in (i + 1)..j : t[k] # "\n"})

\* bool(re.search(pat, t))
Search(t, pat) == \E i \in 0..Len(t) : Ends(t, pat, i) # {}

\* bool(re.search(pat, t, re.I)), pat written in lower case
SearchI(t, pat) == Search(Lower(t), pat)

\* bool(re.match(pat, t)): a match at offset 0
Match(t, pat) == Ends(t, pat, 0) # {}

(***************************************************************************)
(* assign_a5.py                                                            *)
(***************************************************************************)
VIBE_TOOLS ==
  { <<"C","u","r","s","o","r">>,   \* 'Cursor'
    <<"L","o","v","a","b","l","e">>,   \* 'Lovable'
    <<"B","o","l","t">>,   \* 'Bolt'
    <<"v","0">>,   \* 'v0'
    <<"R","e","p","l","i","t">>,   \* 'Replit'
    <<"W","i","n","d","s","u","r","f">>,   \* 'Windsurf'
    <<"D","e","v","i","n">> }   \* 'Devin'

PRIMARY_TOPICS ==
  { <<"P","r","o","t","o","t","y","p","i","n","g">>,   \* 'Prototyping'
    <<"C","o","d","i","n","g"," ","w","i","t","h"," ","A","I">> }   \* 'Coding with AI'

\* NAME_PATTERNS joined by "|" and compiled with re.I
NAME_RE ==
  << Alt(<< << Lit(<<"p","r","o","t","o","t","y","p","e">>) >>,
            << Lit(<<"p","r","o","t","o","t","y","p","i","n","g">>) >>,
            << Lit(<<"v","i","b","e">>), Space0, Lit(<<"c","o","d">>) >>,
            << Lit(<<"b","u","i","l","d","e","r">>), Space1, Lit(<<"b","o","o","t","c","a","m","p">>) >>,
            << Lit(<<"b","u","i","l","d">>), Space1, Lit(<<"a","n","d">>), Space1, Lit(<<"s","h","i","p">>) >>,
            << Lit(<<"b","u","i","l","d">>), Space0, Lit(<<"&">>), Space0, Lit(<<"s","h","i","p">>) >> >>) >>

\* the "3+ vibe tools with tool_weight=0.8" thresholds
VIBE_PRIMARY_COUNT == 3
VIBE_PRIMARY_WEIGHT == 8

\* sum(1 for t in tools if t in VIBE_TOOLS)
count_vibe_tools(course_mapping) ==
  Cardinality({i \in DOMAIN course_mapping.tools : course_mapping.tools[i] \in VIBE_TOOLS})

\* has_a5 that looks for A5 at weight 0.8 only
has_a5_PrimaryOnly(course_mapping) ==
  \E i \in DOMAIN course_mapping.skills :
    course_mapping.skills[i] = Skill(A5, PRIMARY)

\* any(s["code"] == "A5" for s in skills)
has_a5(course_mapping) ==
  \E i \in DOMAIN course_mapping.skills : course_mapping.skills[i].code = A5

\* assign_a5.get_topics(profile)
profile_topics(profile) == ParseTopics(profile.topics)

\* is_primary whose third test leaves out tool_weight
is_primary_CountOnly(m) ==
  LET topics == profile_topics(prof_by_id(m.course_id))
  IN \/ topics \cap PRIMARY_TOPICS # {}
     \/ SearchI(m.course_name, NAME_RE)
     \/ count_vibe_tools(m) >= VIBE_PRIMARY_COUNT

\* the three "Primary:" tests of the loop body
is_primary(m) ==
  LET topics == profile_topics(prof_by_id(m.course_id))
  IN \/ topics \cap PRIMARY_TOPICS # {}
     \/ SearchI(m.course_name, NAME_RE)
     \/ (count_vibe_tools(m) >= VIBE_PRIMARY_COUNT /\ m.tool_weight >= VIBE_PRIMARY_WEIGHT)

\* one entry of primary_assignments / secondary_assignments
Assignment(m) ==
  [course_id |-> m.course_id, course_name |-> m.course_name,
   topics |-> profile_topics(prof_by_id(m.course_id)),
   vibe_count |-> count_vibe_tools(m)]

\* the loop body without "if has_a5(m): continue"
AssignDecision_NoSkip(m) ==
  IF is_primary(m) THEN PRIMARY
  ELSE IF count_vibe_tools(m) >= 1 THEN SECONDARY
  ELSE 0

\* the body of "for m in mappings": the weight appended, or 0 for none
AssignDecision(m) ==
  IF has_a5(m) THEN 0
  ELSE IF is_primary(m) THEN PRIMARY
  ELSE IF count_vibe_tools(m) >= 1 THEN SECONDARY
  ELSE 0

\* a loop body that appends a tag to every course
AssignCourse_Always(m) ==
  [m EXCEPT !.skills = Append(@, Skill(A5, IF is_primary(m) THEN PRIMARY ELSE SECONDARY))]

\* m["skills"].insert(0, ...) in place of m["skills"].append(...)
AssignCourse_Prepend(m) ==
  LET w == AssignDecision(m)
  IN IF w = 0 THEN m ELSE [m EXCEPT !.skills = << Skill(A5, w) >> \o @]

\* m["skills"].append({"code": "A5", "weight": w})
AssignCourse(m) ==
  LET w == AssignDecision(m)
  IN IF w = 0 THEN m ELSE [m EXCEPT !.skills = Append(@, Skill(A5, w))]

RECURSIVE AssignLoop(_, _, _, _)

\* the loop with "break" in place of "continue" on a course that has A5
AssignLoop_Break(order, ms, prim, sec) ==
  IF order = <<>> \/ has_a5(ms[Head(order)])
  THEN [mappings |-> ms, primary |-> prim, secondary |-> sec]
  ELSE LET i == Head(order)
           w == AssignDecision(ms[i])
       IN AssignLoop(Tail(order), [ms EXCEPT ![i] = AssignCourse(ms[i])],
                     IF w = PRIMARY THEN Append(prim, Assignment(ms[i])) ELSE prim,
                     IF w = SECONDARY THEN Append(sec, Assignment(ms[i])) ELSE sec)

\* the loop over mappings, visiting the courses in `order`
AssignLoop(order, ms, prim, sec) ==
  IF order = <<>> THEN [mappings |-> ms, primary |-> prim, secondary |-> sec]
  ELSE LET i == Head(order)
           w == AssignDecision(ms[i])
       IN AssignLoop(Tail(order), [ms EXCEPT ![i] = AssignCourse(ms[i])],
                     IF w = PRIMARY THEN Append(prim, Assignment(ms[i])) ELSE prim,
                     IF w = SECONDARY THEN Append(sec, Assignment(ms[i])) ELSE sec)

(***************************************************************************)
(* validate_tools.py                                                       *)
(***************************************************************************)
TIER1_TOOLS ==
  { <<"C","h","a","t","G","P","T">>,   \* 'ChatGPT'
    <<"O","p","e","n","A","I"," ","A","P","I">>,   \* 'OpenAI API'
    <<"C","l","a","u","d","e"," ","C","o","d","e">>,   \* 'Claude Code'
    <<"L","o","v","a","b","l","e">>,   \* 'Lovable'
    <<"F","i","g","m","a">>,   \* 'Figma'
    <<"L","a","n","g","C","h","a","i","n">>,   \* 'LangChain'
    <<"L","a","n","g","G","r","a","p","h">>,   \* 'LangGraph'
    <<"n","8","n">>,   \* 'n8n'
    <<"R","e","p","l","i","t">>,   \* 'Replit'
    <<"Z","a","p","i","e","r">>,   \* 'Zapier'
    <<"C","u","s","t","o","m"," ","G","P","T","s">>,   \* 'Custom GPTs'
    <<"N","o","t","e","b","o","o","k","L","M">>,   \* 'NotebookLM'
    <<"D","A","L","L","-","E">>,   \* 'DALL-E'
    <<"H","u","g","g","i","n","g"," ","F","a","c","e">>,   \* 'Hugging Face'
    <<"P","i","n","e","c","o","n","e">>,   \* 'Pinecone'
    <<"G","o","o","g","l","e"," ","C","o","l","a","b">>,   \* 'Google Colab'
    <<"N","o","t","i","o","n"," ","A","I">>,   \* 'Notion AI'
    <<"S","t","a","b","l","e"," ","D","i","f","f","u","s","i","o","n">>,   \* 'Stable Diffusion'
    <<"M","i","d","j","o","u","r","n","e","y">>,   \* 'Midjourney'
    <<"G","P","T","-","4">> }   \* 'GPT-4'

T_Claude == <<"C","l","a","u","d","e">>
T_Cursor == <<"C","u","r","s","o","r">>
T_Bolt == <<"B","o","l","t">>
T_v0 == <<"v","0">>
T_Make == <<"M","a","k","e">>
T_Gemini == <<"G","e","m","i","n","i">>
T_Copilot == <<"C","o","p","i","l","o","t">>
T_Perplexity == <<"P","e","r","p","l","e","x","i","t","y">>
T_Windsurf == <<"W","i","n","d","s","u","r","f">>
T_Devin == <<"D","e","v","i","n">>
T_Relay == <<"R","e","l","a","y">>
T_Lovable == <<"L","o","v","a","b","l","e">>
T_Replit == <<"R","e","p","l","i","t">>
T_ChatGPT == <<"C","h","a","t","G","P","T">>

CLAUDE_CONTEXT ==
  << <<"A","n","t","h","r","o","p","i","c">>,   \* 'Anthropic'
     <<"S","o","n","n","e","t">>,   \* 'Sonnet'
     <<"O","p","u","s">>,   \* 'Opus'
     <<"H","a","i","k","u">>,   \* 'Haiku'
     <<"A","P","I">>,   \* 'API'
     <<"m","o","d","e","l">>,   \* 'model'
     <<"A","I">>,   \* 'AI'
     <<"L","L","M">>,   \* 'LLM'
     <<"c","h","a","t","b","o","t">> >>   \* 'chatbot'

DEVIN_CONTEXT ==
  << <<"A","I">>,   \* 'AI'
     <<"a","g","e","n","t">>,   \* 'agent'
     <<"c","o","d","i","n","g">>,   \* 'coding'
     <<"e","n","g","i","n","e","e","r">>,   \* 'engineer'
     <<"t","o","o","l">>,   \* 'tool'
     <<"s","o","f","t","w","a","r","e">> >>   \* 'software'

RELAY_CONTEXT ==
  << <<"a","p","p">>,   \* 'app'
     <<"a","u","t","o","m","a","t","i","o","n">>,   \* 'automation'
     <<"w","o","r","k","f","l","o","w">> >>   \* 'workflow'

Max2(a, b) == IF a >= b THEN a ELSE b
Min2(a, b) == IF a <= b THEN a ELSE b
MaxOf(S) == CHOOSE x \in S : \A y \in S : y <= x

\* the start offsets of re.finditer(re.escape(anchor), text); no anchor the
\* script passes can overlap itself, so every occurrence is a match
Occurrences(text, anchor) ==
  {i \in 0..(Len(text) - Len(anchor)) : MatchAt(text, anchor, i)}

\* _has_nearby whose snippet stops one character short of the window
has_nearby_Short(text, anchor, context_words, window) ==
  \E i \in Occurrences(text, anchor) :
    LET start == Max2(0, i - window + 1)
        end == Min2(Len(text), i + Len(anchor) + window - 1)
        snippet == Lower(Slice(text, start, end))
    IN \E w \in DOMAIN context_words : Contains(snippet, Lower(context_words[w]))

\* _has_nearby(text, anchor, context_words, window)
has_nearby(text, anchor, context_words, window) ==
  \E i \in Occurrences(text, anchor) :
    LET start == Max2(0, i - window)
        end == Min2(Len(text), i + Len(anchor) + window)
        snippet == Lower(Slice(text, start, end))
    IN \E w \in DOMAIN context_words : Contains(snippet, Lower(context_words[w]))

\* re.sub(pat, '', text, flags=re.I): leftmost matches removed, scanning from
\* offset i; lt is the lower-cased text. No pattern the script passes matches
\* the empty string or has two matches starting at one offset.
RECURSIVE SubScan(_, _, _, _)
SubScan(text, lt, pat, i) ==
  IF i >= Len(text) THEN <<>>
  ELSE LET E == Ends(lt, pat, i)
       IN IF E # {} THEN SubScan(text, lt, pat, MaxOf(E))
          ELSE <<text[i + 1]>> \o SubScan(text, lt, pat, i + 1)

SubI(text, pat) == SubScan(text, Lower(text), pat, 0)

\* r'\bName\b'
Standalone(name) == << WordB, Lit(name), WordB >>

\* (?:cursor\s+position|text\s+cursor|mouse\s+cursor)
CURSOR_EXCLUDE ==
  << Alt(<< << Lit(<<"c","u","r","s","o","r">>), Space1, Lit(<<"p","o","s","i","t","i","o","n">>) >>,
            << Lit(<<"t","e","x","t">>), Space1, Lit(<<"c","u","r","s","o","r">>) >>,
            << Lit(<<"m","o","u","s","e">>), Space1, Lit(<<"c","u","r","s","o","r">>) >> >>) >>

\* (?:bolt\s+on|nuts\s+and\s+bolts)
BOLT_EXCLUDE ==
  << Alt(<< << Lit(<<"b","o","l","t">>), Space1, Lit(<<"o","n">>) >>,
            << Lit(<<"n","u","t","s">>), Space1, Lit(<<"a","n","d">>), Space1, Lit(<<"b","o","l","t","s">>) >> >>) >>

\* \bwindsurfing\b
WINDSURF_EXCLUDE == << WordB, Lit(<<"w","i","n","d","s","u","r","f","i","n","g">>), WordB >>

\* (?:^|\s)v0(?:\s|[,;.!?)]|$)
V0_TOKEN ==
  << Alt(<< <<Bos>>, <<SpaceC>> >>), Lit(T_v0),
     Alt(<< <<SpaceC>>, <<OneOf({",", ";", ".", "!", "?", ")"})>>, <<Eos>> >>) >>

\* \.\d
DOT_DIGIT == << Lit(<<".">>), Digit >>

\* the four "Make" patterns, compiled with re.I
MAKE_PATTERNS ==
  << << Lit(<<"m","a","k","e",".","c","o","m">>) >>,
     << Lit(<<"m","a","k","e">>), Space1, Lit(<<"a","u","t","o","m","a","t","i","o","n">>) >>,
     << Lit(<<"m","a","k","e">>), Space1, Lit(<<"s","c","e","n","a","r","i","o">>) >>,
     << Lit(<<"m","a","k","e">>), Space1, Lit(<<"i","n","t","e","g","r","a","t","i","o","n">>) >> >>

\* (?:tools?|platform|software|app)\b.{0,30}\bMake\b, compiled with re.I
MAKE_TOOL_LIST ==
  << Alt(<< << Lit(<<"t","o","o","l">>), Opt(<<Lit(<<"s">>)>>) >>,
            << Lit(<<"p","l","a","t","f","o","r","m">>) >>,
            << Lit(<<"s","o","f","t","w","a","r","e">>) >>,
            << Lit(<<"a","p","p">>) >> >>),
     WordB, DotUpTo(30), WordB, Lit(<<"m","a","k","e">>), WordB >>

\* (?:GitHub|Microsoft)?\s*Copilot\b
COPILOT_RE ==
  << Opt(<< Alt(<< <<Lit(<<"G","i","t","H","u","b">>)>>, <<Lit(<<"M","i","c","r","o","s","o","f","t">>)>> >>) >>), Space0, Lit(T_Copilot), WordB >>

\* the "v0" branch: some occurrence of v0 is not followed by \.\d
V0NotVersion(text) ==
  \E i \in Occurrences(text, T_v0) :
    LET e == i + Len(T_v0)
        after == Slice(text, e, Min2(Len(text), e + 2))
    IN ~Match(after, DOT_DIGIT)

\* the Cursor / Bolt / Windsurf branches: a capitalized standalone name that
\* survives the removal of the excluded phrases
SurvivesExclusion(name, exclude, text) ==
  IF ~Search(text, Standalone(name)) THEN FALSE
  ELSE IF SearchI(text, exclude)
       THEN Search(SubI(text, exclude), Standalone(name))
       ELSE TRUE

\* the Relay branch without its "Relay.app" test; other names by substring
tool_found_in_NoRelayApp(tool, text) ==
  IF text = <<>> THEN FALSE
  ELSE IF tool = T_Relay THEN
    Search(text, Standalone(T_Relay)) /\ has_nearby(text, T_Relay, RELAY_CONTEXT, 150)
  ELSE Contains(Lower(text), Lower(tool))

tool_found_in(tool, text) ==
  IF text = <<>> THEN FALSE
  ELSE IF tool \in TIER1_TOOLS THEN Contains(Lower(text), Lower(tool))
  ELSE IF tool = T_Claude THEN
    \/ Contains(Lower(text), <<"c","l","a","u","d","e"," ","c","o","d","e">>)
    \/ (Search(text, Standalone(T_Claude)) /\ has_nearby(text, T_Claude, CLAUDE_CONTEXT, 150))
  ELSE IF tool = T_Cursor THEN SurvivesExclusion(T_Cursor, CURSOR_EXCLUDE, text)
  ELSE IF tool = T_Bolt THEN SurvivesExclusion(T_Bolt, BOLT_EXCLUDE, text)
  ELSE IF tool = T_v0 THEN Search(text, V0_TOKEN) /\ V0NotVersion(text)
  ELSE IF tool = T_Make THEN
    \/ \E p \in DOMAIN MAKE_PATTERNS : SearchI(text, MAKE_PATTERNS[p])
    \/ SearchI(text, MAKE_TOOL_LIST)
  ELSE IF tool = T_Gemini THEN Search(text, Standalone(T_Gemini))
  ELSE IF tool = T_Copilot THEN Search(text, COPILOT_RE)
  ELSE IF tool = T_Perplexity THEN Search(text, Standalone(T_Perplexity))
  ELSE IF tool = T_Windsurf THEN SurvivesExclusion(T_Windsurf, WINDSURF_EXCLUDE, text)
  ELSE IF tool = T_Devin THEN
    Search(text, Standalone(T_Devin)) /\ has_nearby(text, T_Devin, DEVIN_CONTEXT, 150)
  ELSE IF tool = T_Relay THEN
    \/ Search(text, << Lit(<<"R","e","l","a","y",".","a","p","p">>) >>)
    \/ (Search(text, Standalone(T_Relay)) /\ has_nearby(text, T_Relay, RELAY_CONTEXT, 150))
  ELSE Contains(Lower(text), Lower(tool))

\* syllabus texts of the full store
TEXT_EMPTY == <<>>   \* ''
TEXT_CURSOR == <<"U","s","e"," ","t","h","e"," ","C","u","r","s","o","r"," ","a","p","p"," ","t","o"," ","e","d","i","t"," ","y","o","u","r"," ","c","u","r","s","o","r"," ","p","o","s","i","t","i","o","n"," ","i","n"," ","F","i","g","m","a","."," ","D","e","v","i","n"," ","i","s"," ","a","n"," ","A","I"," ","a","g","e","n","t">>   \* 'Use the Cursor app to edit your cursor position in Figma. Devin is an AI agent'
TEXT_V0 == <<"I","n","s","t","a","l","l"," ","v","0",".","3"," ","t","h","e","n"," ","b","o","l","t"," ","o","n"," ","L","o","v","a","b","l","e"," ","a","n","d"," ","v","0"," ","(","b","e","t","a",")">>   \* 'Install v0.3 then bolt on Lovable and v0 (beta)'
STORE_TEXTS == {TEXT_EMPTY, TEXT_CURSOR, TEXT_V0}

\* the tools assigned in the full store
STORE_TOOLS == {FIGMA, T_Cursor, T_Bolt, T_v0, T_Lovable, T_Devin, T_Relay, T_Windsurf}

\* tool_found_in is pure: its value on the tools and syllabus texts of the
\* full store is tabulated once, in `found`, and computed directly for any
\* other pair
FoundTable == [p \in STORE_TOOLS \X STORE_TEXTS |-> tool_found_in(p[1], p[2])]

Found(tool, text) ==
  IF <<tool, text>> \in DOMAIN found
  THEN found[<<tool, text>>]
  ELSE tool_found_in(tool, text)

\* the tools of a list, last first
RECURSIVE Reverse(_)
Reverse(list) == IF list = <<>> THEN <<>> ELSE Append(Reverse(Tail(list)), Head(list))

\* kept built with kept.insert(0, tool)
KeptTools_Reversed(course) ==
  LET syllabus == prof_by_id(course.course_id).syllabus_text
  IN Reverse(SelectSeq(course.tools, LAMBDA tool : Found(tool, syllabus)))

\* kept = [tool for tool in course["tools"] if tool_found_in(tool, syllabus)]
KeptTools(course) ==
  LET syllabus == prof_by_id(course.course_id).syllabus_text
  IN SelectSeq(course.tools, LAMBDA tool : Found(tool, syllabus))

\* removed = the tools of the course that are not kept
RemovedTools(course) ==
  LET syllabus == prof_by_id(course.course_id).syllabus_text
  IN SelectSeq(course.tools, LAMBDA tool : ~Found(tool, syllabus))

\* a loop body that also drops the A5 tags of a course it leaves without a tool
ValidateCourse_DropsA5(course) ==
  IF course.tools = <<>> THEN course
  ELSE LET kept == KeptTools(course)
       IN [course EXCEPT !.tools = kept,
                         !.tool_weight = IF kept = <<>> THEN 0 ELSE @,
                         !.skills = IF kept = <<>>
                                    THEN SelectSeq(@, LAMBDA s : s.code # A5)
                                    ELSE @]

\* the loop body without "if not kept: course['tool_weight'] = 0"
ValidateCourse_NoReset(course) ==
  IF course.tools = <<>> THEN course
  ELSE [course EXCEPT !.tools = KeptTools(course)]

\* a loop body that also skips a course whose syllabus text is empty
ValidateCourse_SkipNoText(course) ==
  IF course.tools = <<>> \/ prof_by_id(course.course_id).syllabus_text = <<>> THEN course
  ELSE LET kept == KeptTools(course)
       IN [course EXCEPT !.tools = kept,
                         !.tool_weight = IF kept = <<>> THEN 0 ELSE @]

\* the body of "for course in mappings"
ValidateCourse(course) ==
  IF course.tools = <<>> THEN course
  ELSE LET kept == KeptTools(course)
       IN [course EXCEPT !.tools = kept,
                         !.tool_weight = IF kept = <<>> THEN 0 ELSE @]

\* the loop over mappings, visiting the courses in `order`
RECURSIVE ValidateLoop(_, _, _)
ValidateLoop(order, ms, log) ==
  IF order = <<>> THEN [mappings |-> ms, removed |-> log]
  ELSE LET i == Head(order)
           removed == IF ms[i].tools = <<>> THEN <<>> ELSE RemovedTools(ms[i])
       IN ValidateLoop(Tail(order), [ms EXCEPT ![i] = ValidateCourse(ms[i])],
                       IF removed = <<>> THEN log
                       ELSE Append(log, [course_id |-> ms[i].course_id, removed |-> removed]))

(***************************************************************************)
(* map_skills.py                                                           *)
(***************************************************************************)
\* the taxonomy codes the classifier may assign
SKILL_CODES ==
  << <<"A","1">>, <<"A","2">>, <<"A","3">>, <<"A","4">>, <<"A","5">>,
     <<"B","1">>, <<"B","2">>, <<"B","3">>, <<"B","4">>, <<"B","5">>,
     <<"C","1">>, <<"C","2">>, <<"C","3">>, <<"C","4">>, <<"C","5">>,
     <<"D","1">>, <<"D","2">>, <<"D","3">>, <<"D","4">>, <<"D","5">> >>

\* SkillMapping: the parsed answer of the external classifier
SkillMapping(primary_skills, secondary_skills, reasoning) ==
  [primary_skills |-> primary_skills, secondary_skills |-> secondary_skills,
   reasoning |-> reasoning]

\* no messages.parse call has returned yet
NoOutput == SkillMapping(<<>>, <<>>, "")

\* a map_course that writes the classifier's lists into the record as they are
map_course_Unfiltered(course, result) ==
  [course_id |-> course.course_id, course_name |-> course.course_name,
   primary_skills |-> result.primary_skills,
   secondary_skills |-> result.secondary_skills,
   reasoning |-> result.reasoning]

\* the record map_course returns when messages.parse returned `result`
map_course(course, result) ==
  [course_id |-> course.course_id, course_name |-> course.course_name,
   primary_skills |-> SelectSeq(result.primary_skills, LAMBDA s : s \in Range(SKILL_CODES)),
   secondary_skills |-> SelectSeq(result.secondary_skills, LAMBDA s : s \in Range(SKILL_CODES)),
   reasoning |-> result.reasoning]

\* the record appended by "except Exception as e"; the reasoning is f"Error: {e}"
ErrorRecord(course, e) ==
  [course_id |-> course.course_id, course_name |-> course.course_name,
   primary_skills |-> <<>>, secondary_skills |-> <<>>,
   reasoning |-> <<"Error: ", e>>]

\* existing_mappings[m["course_id"]] = m on a dict kept as its list of values:
\* a known key keeps its place and takes the new value
DictPut(values, m) ==
  IF \E k \in DOMAIN values : values[k].course_id = m.course_id
  THEN [k \in DOMAIN values |->
          IF values[k].course_id = m.course_id THEN m ELSE values[k]]
  ELSE Append(values, m)

\* list(existing_mappings.values()) after the saved file was read into the dict
RECURSIVE ExistingMappings(_, _)
ExistingMappings(file, values) ==
  IF file = <<>> THEN values
  ELSE ExistingMappings(Tail(file), DictPut(values, Head(file)))

\* the course ids of a list of records
IdsOf(list) == { list[k].course_id : k \in DOMAIN list }

\* a `remaining` that holds every course, mapped or not
Remaining_NoResume(courses, mapped_ids) == courses

\* remaining = [c for c in courses if c["course_id"] not in mapped_ids]
Remaining(courses, mapped_ids) ==
  SelectSeq(courses, LAMBDA c : c.course_id \notin mapped_ids)

(***************************************************************************)
(* The store and the script runs                                           *)
(***************************************************************************)
NumCourses == 2       \* courses in the full store
MaxSkills == 3        \* skills of the course a single script is run on
MaxTools == 3         \* tools of the course a single script is run on

Course(id, name, skills, tools, tool_weight) ==
  [course_id |-> id, course_name |-> name, skills |-> skills,
   tools |-> tools, tool_weight |-> tool_weight]

Profile(id, topics, syllabus_text) ==
  [course_id |-> id, topics |-> topics, syllabus_text |-> syllabus_text]

\* course names
N_BAKING == <<"I","n","t","r","o"," ","t","o"," ","B","a","k","i","n","g">>   \* 'Intro to Baking'
N_VIBE == <<"V","i","b","e"," "," ","C","o","d","i","n","g"," ","B","o","o","t","c","a","m","p">>   \* 'Vibe  Coding Bootcamp'
N_UX == <<"U","X"," ","D","e","s","i","g","n"," ","B","a","s","i","c","s">>   \* 'UX Design Basics'
N_PRICING == <<"P","r","i","c","i","n","g"," ","W","o","r","k","s","h","o","p">>   \* 'Pricing Workshop'
N_BUILD == <<"B","u","i","l","d"," ","&"," ","S","h","i","p"," ","F","a","s","t">>   \* 'Build & Ship Fast'
N_METRIC == <<"M","e","t","r","i","c","s"," ","1","0","1">>   \* 'Metrics 101'
N_PROTO == <<"R","a","p","i","d"," ","P","R","O","T","O","T","Y","P","I","N","G">>   \* 'Rapid PROTOTYPING'
N_BUILDER == <<"A","I"," ","B","u","i","l","d","e","r","\n","B","o","o","t","c","a","m","p">>   \* 'AI Builder\nBootcamp'

\* the topics strings of the profiles
TOPICS_NONE == <<>>   \* ''
TOPICS_PROTO == <<"P","r","o","t","o","t","y","p","i","n","g",","," ","D","e","s","i","g","n">>   \* 'Prototyping, Design'
TOPICS_GROWTH == <<" ","G","r","o","w","t","h"," ",",",",">>   \* ' Growth ,,'
TOPICS_PROG == <<"P","r","o","g","r","a","m","m","i","n","g">>   \* 'Programming'
TOPICS_EVAL == <<"A","/","B"," ","T","e","s","t","i","n","g">>   \* 'A/B Testing'
TOPICS_CODING == <<"C","o","o","k","i","n","g",",","C","o","d","i","n","g"," ","w","i","t","h"," ","A","I">>   \* 'Cooking,Coding with AI'
TOPICS_OTHER == <<"C","o","o","k","i","n","g",","," ","p","r","o","t","o","t","y","p","i","n","g">>   \* 'Cooking, prototyping'

\* the courses of the full store, each with its profile list (empty: the
\* course has no entry in course_profiles.json)
Scenario(course, profile) == [course |-> course, profile |-> profile]

K_BAKING_A ==
  Course(0, N_BAKING, << Skill(A1, PRIMARY), Skill(A1, SECONDARY), Skill(E1, SECONDARY) >>,
         << FIGMA, T_Cursor >>, SECONDARY)
K_BAKING_B ==
  Course(0, N_BAKING, << Skill(A3, SECONDARY), Skill(A2, PRIMARY), Skill(B1, SECONDARY),
                         Skill(B2, SECONDARY) >>,
         << T_Cursor, T_Bolt, T_v0, T_Lovable >>, PRIMARY)
K_VIBE ==
  Course(0, N_VIBE, << Skill(B1, SECONDARY), Skill(B2, PRIMARY), Skill(C1, PRIMARY) >>,
         << >>, 0)
K_UX ==
  Course(0, N_UX, << Skill(E1, SECONDARY), Skill(A5, SECONDARY), Skill(A3, PRIMARY) >>,
         << T_Devin, T_Relay >>, SECONDARY)

K_METRIC ==
  Course(0, N_METRIC, << Skill(A5, SECONDARY), Skill(E2, PRIMARY), Skill(A5, PRIMARY) >>,
         << >>, 0)

Scenarios ==
  { Scenario(K_BAKING_A, << >>),
    Scenario(K_METRIC, << >>),
    Scenario(K_BAKING_A, << Profile(0, TOPICS_PROTO, TEXT_CURSOR) >>),
    Scenario(K_BAKING_B, << >>),
    Scenario(K_BAKING_B, << Profile(0, TOPICS_GROWTH, TEXT_V0) >>),
    Scenario(K_VIBE, << Profile(0, TOPICS_PROTO, TEXT_CURSOR) >>),
    Scenario(K_UX, << Profile(0, TOPICS_PROTO, TEXT_CURSOR) >>) }

\* the sub-list of pool at the indices S
RECURSIVE Pick(_, _)
Pick(pool, S) ==
  IF pool = <<>> THEN <<>>
  ELSE LET n == Len(pool)
           front == Pick(SubSeq(pool, 1, n - 1), S)
       IN IF n \in S THEN Append(front, pool[n]) ELSE front

\* the sub-lists of pool of at most k entries
SubLists(pool, k) ==
  { Pick(pool, S) : S \in { T \in SUBSET DOMAIN pool : Cardinality(T) <= k } }

\* the store of the scenarios f[1..n]: course i gets course_id i
StoreOf(f) == [i \in DOMAIN f |-> [f[i].course EXCEPT !.course_id = i]]

\* the profiles file of the scenarios f[1..n]: ascending course_id, as
\* aggregate_course_profiles sorts it
RECURSIVE ProfilesOf(_, _)
ProfilesOf(f, n) ==
  IF n = 0 THEN <<>>
  ELSE ProfilesOf(f, n - 1)
         \o [k \in DOMAIN f[n].profile |-> [f[n].profile[k] EXCEPT !.course_id = n]]

\* the orders in which a loop may visit n list entries
Orders(n) ==
  { o \in [1..n -> 1..n] : \A i, j \in 1..n : i # j => o[i] # o[j] }

\* the listed order of "for m in mappings"
ListOrder(n) == [i \in 1..n |-> i]

\* bookkeeping shared by the runs: what ran, on what, and the pipeline position
PIPELINE == << "assign", "validate", "prune", "assign", "validate", "prune" >>

PipeAfter(op) ==
  IF pipe >= 0 /\ pipe < Len(PIPELINE) /\ PIPELINE[pipe + 1] = op THEN pipe + 1 ELSE -1

Ran(op) ==
  /\ lastOp' = op
  /\ prevOp' = lastOp
  /\ prev' = mappings
  /\ pipe' = PipeAfter(op)
  /\ snap' = IF PipeAfter(op) = 3 THEN mappings' ELSE snap
  /\ UNCHANGED << profiles, initial, found >>
  /\ UNCHANGED << pc, run_mappings, remaining, parsed_output, calls, outcome >>

InitHistory ==
  /\ removals = <<>>
  /\ primary_assignments = <<>>
  /\ secondary_assignments = <<>>
  /\ tool_removed = <<>>
  /\ lastOp = "none"
  /\ prevOp = "none"
  /\ prev = mappings
  /\ initial = mappings
  /\ pipe = 0
  /\ snap = mappings
  /\ pc = "idle"
  /\ run_mappings = <<>>
  /\ remaining = <<>>
  /\ parsed_output = NoOutput
  /\ calls = <<>>
  /\ outcome = "none"

\* the full store: NumCourses courses, each with or without a profile
Init ==
  /\ found = FoundTable
  /\ \E f \in [1..NumCourses -> Scenarios] :
       /\ mappings = StoreOf(f)
       /\ profiles = ProfilesOf(f, NumCourses)
  /\ InitHistory

\* assign_a5.py main(), its loop visiting the courses in `order`
AssignIn(order) ==
  LET r == AssignLoop(order, mappings, <<>>, <<>>)
  IN /\ mappings' = r.mappings
     /\ primary_assignments' = r.primary
     /\ secondary_assignments' = r.secondary
     /\ removals' = <<>>
     /\ tool_removed' = <<>>
     /\ Ran("assign")

\* a run that deletes the courses it left without a tool
ValidateIn_DropEmpty(order) ==
  LET r == ValidateLoop(order, mappings, <<>>)
  IN /\ mappings' = SelectSeq(r.mappings, LAMBDA course : course.tools # <<>>)
     /\ tool_removed' = r.removed
     /\ removals' = <<>>
     /\ primary_assignments' = <<>>
     /\ secondary_assignments' = <<>>
     /\ Ran("validate")

\* validate_tools.py main(), its loop visiting the courses in `order`
ValidateIn(order) ==
  LET r == ValidateLoop(order, mappings, <<>>)
  IN /\ mappings' = r.mappings
     /\ tool_removed' = r.removed
     /\ removals' = <<>>
     /\ primary_assignments' = <<>>
     /\ secondary_assignments' = <<>>
     /\ Ran("validate")

\* cleanup_skills.py, its loop visiting the courses in `order`
PruneIn(order) ==
  LET r == PruneLoop(order, mappings, <<>>)
  IN /\ mappings' = r.mappings
     /\ removals' = r.removals
     /\ primary_assignments' = <<>>
     /\ secondary_assignments' = <<>>
     /\ tool_removed' = <<>>
     /\ Ran("prune")

\* python3 scripts/assign_a5.py
AssignRun == AssignIn(ListOrder(Len(mappings)))

\* python3 scripts/validate_tools.py
ValidateRun == ValidateIn(ListOrder(Len(mappings)))

\* python3 scripts/cleanup_skills.py
PruneRun == PruneIn(ListOrder(Len(mappings)))

Next == AssignRun \/ ValidateRun \/ PruneRun

Spec == Init /\ [][Next]_vars

\* the same runs with the courses visited in an arbitrary order
AssignAnyOrder == \E order \in Orders(Len(mappings)) : AssignIn(order)
ValidateAnyOrder == \E order \in Orders(Len(mappings)) : ValidateIn(order)
PruneAnyOrder == \E order \in Orders(Len(mappings)) : PruneIn(order)

NextAnyOrder == AssignAnyOrder \/ ValidateAnyOrder \/ PruneAnyOrder

\* the courses of the stores whose visiting order is varied: each script
\* changes at least one of them
OrderScenarios ==
  { Scenario(K_BAKING_A, << >>),
    Scenario(K_BAKING_B, << Profile(0, TOPICS_GROWTH, TEXT_V0) >>),
    Scenario(K_UX, << Profile(0, TOPICS_PROTO, TEXT_CURSOR) >>) }

InitAnyOrder ==
  /\ found = FoundTable
  /\ \E f \in [1..NumCourses -> OrderScenarios] :
       /\ mappings = StoreOf(f)
       /\ profiles = ProfilesOf(f, NumCourses)
  /\ InitHistory

SpecAnyOrder == InitAnyOrder /\ [][NextAnyOrder]_vars

(***************************************************************************)
(* cleanup_skills.py run on a store of one course                          *)
(***************************************************************************)
PRUNE_SKILL_POOL ==
  << Skill(A1, PRIMARY), Skill(A1, SECONDARY), Skill(A2, PRIMARY),
     Skill(A3, SECONDARY), Skill(A3, PRIMARY),
     Skill(E1, SECONDARY), Skill(E1, PRIMARY), Skill(E2, PRIMARY),
     Skill(B1, SECONDARY), Skill(B2, SECONDARY), Skill(B2, PRIMARY),
     Skill(C1, PRIMARY), Skill(A5, SECONDARY) >>

PRUNE_NAMES == { N_BAKING, N_PRICING, N_UX, N_METRIC, N_BUILD }

PRUNE_TOPICS == { TOPICS_GROWTH, TOPICS_PROG, TOPICS_EVAL, TOPICS_PROTO }

InitPrune ==
  /\ \E skills \in SubLists(PRUNE_SKILL_POOL, MaxSkills), name \in PRUNE_NAMES,
        tools \in { <<>>, << FIGMA >> } :
       mappings = << Course(1, name, skills, tools, IF tools = <<>> THEN 0 ELSE SECONDARY) >>
  /\ \/ profiles = <<>>
     \/ \E topics \in PRUNE_TOPICS : profiles = << Profile(1, topics, TEXT_EMPTY) >>
  /\ found = <<>>
  /\ InitHistory

SpecPrune == InitPrune /\ [][PruneRun]_vars

\* the one-course stores on which the order of the rules is varied
RULE_SKILL_POOL ==
  << Skill(A1, PRIMARY), Skill(A1, SECONDARY), Skill(A2, PRIMARY), Skill(A3, SECONDARY),
     Skill(E1, SECONDARY), Skill(B1, SECONDARY), Skill(B2, SECONDARY), Skill(B2, PRIMARY) >>

InitRules ==
  /\ \E skills \in SubLists(RULE_SKILL_POOL, MaxSkills), name \in { N_BAKING, N_PRICING } :
       mappings = << Course(1, name, skills, << >>, 0) >>
  /\ \/ profiles = <<>>
     \/ profiles = << Profile(1, TOPICS_EVAL, TEXT_EMPTY) >>
  /\ found = <<>>
  /\ InitHistory

SpecRules == InitRules /\ [][PruneRun]_vars

(***************************************************************************)
(* assign_a5.py run on a store of one course                               *)
(***************************************************************************)
ASSIGN_TOOL_POOL == << FIGMA, T_Cursor, T_Relay, T_Bolt, T_Lovable >>

ASSIGN_NAMES == { N_BAKING, N_VIBE, N_BUILD, N_PROTO, N_BUILDER, N_PRICING }

ASSIGN_TOPICS == { TOPICS_NONE, TOPICS_PROTO, TOPICS_CODING, TOPICS_OTHER, TOPICS_GROWTH }

ASSIGN_SKILLS ==
  { << >>,
    << Skill(A1, PRIMARY), Skill(B1, SECONDARY) >>,
    << Skill(A5, SECONDARY), Skill(B1, SECONDARY) >>,
    << Skill(A2, PRIMARY), Skill(A5, PRIMARY) >> }

InitAssign ==
  /\ \E skills \in ASSIGN_SKILLS, name \in ASSIGN_NAMES,
        tools \in SubLists(ASSIGN_TOOL_POOL, MaxTools),
        tool_weight \in {0, SECONDARY, PRIMARY} :
       mappings = << Course(1, name, skills, tools, tool_weight) >>
  /\ \/ profiles = <<>>
     \/ \E topics \in ASSIGN_TOPICS : profiles = << Profile(1, topics, TEXT_EMPTY) >>
  /\ found = <<>>
  /\ InitHistory

SpecAssign == InitAssign /\ [][AssignRun]_vars

(***************************************************************************)
(* validate_tools.py run on a store of one course                          *)
(***************************************************************************)
\* window=150 of the three _has_nearby calls
WINDOW == 150

\* names that are in no tier table
T_Zed == <<"Z","e","d">>
T_cursor == <<"c","u","r","s","o","r">>

VALIDATE_TOOLS ==
  { FIGMA, T_ChatGPT, T_Lovable, T_Claude, T_Cursor, T_Bolt, T_v0, T_Make, T_Gemini,
    T_Copilot, T_Perplexity, T_Windsurf, T_Devin, T_Relay, T_Zed, T_cursor }

\* n copies of the character c
Fill(c, n) == [i \in 1..n |-> c]

X_CURSOR_LOWER == <<"c","u","r","s","o","r"," ","p","o","s","i","t","i","o","n">>   \* 'cursor position'
X_CURSOR_PHRASE == <<"M","o","v","e"," ","t","h","e"," ","C","u","r","s","o","r"," ","p","o","s","i","t","i","o","n">>   \* 'Move the Cursor position'
X_CURSOR_APP == <<"u","s","e"," ","t","h","e"," ","C","u","r","s","o","r"," ","a","p","p"," ","t","o"," ","e","d","i","t"," ","y","o","u","r"," ","c","u","r","s","o","r"," ","p","o","s","i","t","i","o","n">>   \* 'use the Cursor app to edit your cursor position'
X_CURSOR_SPLICE == <<"C","u","r","s","o","r"," ","p","o","s","i","t","i","o","n","."," ","C","u","r","t","e","x","t"," ","c","u","r","s","o","r","s","o","r">>   \* 'Cursor position. Curtext cursorsor'
X_CURSOR_PLAIN == <<"B","u","i","l","d"," ","w","i","t","h"," ","C","u","r","s","o","r",".">>   \* 'Build with Cursor.'
X_BOLT_PHRASE == <<"B","o","l","t"," ","o","n"," ","e","x","t","r","a","s",","," ","n","u","t","s"," ","a","n","d"," ","b","o","l","t","s">>   \* 'Bolt on extras, nuts and bolts'
X_BOLT_APP == <<"n","u","t","s"," ","a","n","d"," ","b","o","l","t","s"," ","o","f"," ","B","o","l","t">>   \* 'nuts and bolts of Bolt'
X_BOLT_SPLICE == <<"B","o","l","t"," ","o","n"," ","B","o","b","o","l","t"," ","o","n","l","t">>   \* 'Bolt on Bobolt onlt'
X_WIND_PHRASE == <<"W","i","n","d","s","u","r","f","i","n","g"," ","l","e","s","s","o","n","s">>   \* 'Windsurfing lessons'
X_WIND_APP == <<"w","i","n","d","s","u","r","f","i","n","g"," ","w","i","t","h"," ","W","i","n","d","s","u","r","f">>   \* 'windsurfing with Windsurf'
X_V0_VERSION == <<"I","n","s","t","a","l","l"," ","v","0",".","3">>   \* 'Install v0.3'
X_V0_ALONE == <<"v","0">>   \* 'v0'
X_V0_SPACE == <<"t","r","y"," ","v","0"," ","n","o","w">>   \* 'try v0 now'
X_V0_BOTH == <<"v","0",".","3"," ","a","n","d"," ","v","0">>   \* 'v0.3 and v0'
X_V0_COLON == <<"U","s","e"," ","v","0",":"," ","b","u","i","l","d">>   \* 'Use v0: build'
X_V0_EMBEDDED == <<"v","0",".","3"," ","d","e","v","0","p","s">>   \* 'v0.3 dev0ps'
X_V0_PAREN == <<"(","v","0",")">>   \* '(v0)'
X_V0_DOT == <<"S","h","i","p"," ","w","i","t","h"," ","v","0",".","x">>   \* 'Ship with v0.x'
X_COPILOT_EMBEDDED == <<"x","C","o","p","i","l","o","t">>   \* 'xCopilot'
X_COPILOT_PLURAL == <<"C","o","p","i","l","o","t","s">>   \* 'Copilots'
X_COPILOT_GITHUB == <<"G","i","t","H","u","b"," ","C","o","p","i","l","o","t",","," ","G","e","m","i","n","i",".">>   \* 'GitHub Copilot, Gemini.'
X_GEMINI_EMBEDDED == <<"x","G","e","m","i","n","i"," ","a","n","d"," ","P","e","r","p","l","e","x","i","t","y","_">>   \* 'xGemini and Perplexity_'
X_PERPLEXITY == <<"A","s","k"," ","P","e","r","p","l","e","x","i","t","y"," ","n","o","w">>   \* 'Ask Perplexity now'
X_RELAY_APP == <<"R","e","l","a","y",".","a","p","p"," ","l","e","t","s"," ","y","o","u"," ","a","u","t","o","m","a","t","e">>   \* 'Relay.app lets you automate'
X_RELAY_EMBEDDED == <<"x","R","e","l","a","y",".","a","p","p","l","e">>   \* 'xRelay.apple'
X_RELAY_ALONE == <<"R","e","l","a","y"," ","r","a","c","e">>   \* 'Relay race'
X_RELAY_CONTEXT == <<"R","e","l","a","y"," ","w","o","r","k","f","l","o","w">>   \* 'Relay workflow'
X_CLAUDE_CONTEXT == <<"C","l","a","u","d","e"," ","b","y"," ","A","n","t","h","r","o","p","i","c">>   \* 'Claude by Anthropic'
X_CLAUDE_MONET == <<"C","l","a","u","d","e"," ","M","o","n","e","t">>   \* 'Claude Monet'
X_CLAUDE_CODE == <<"c","l","a","u","d","e"," ","c","o","d","e",","," ","c","h","a","t","g","p","t"," ","a","n","d"," ","Z","E","D">>   \* 'claude code, chatgpt and ZED'
X_DEVIN_ALONE == <<"D","e","v","i","n">>   \* 'Devin'
X_DEVIN_MAINTAIN == <<"D","e","v","i","n"," ","w","i","l","l"," ","m","a","i","n","t","a","i","n"," ","i","t">>   \* 'Devin will maintain it'

\* a context term k characters behind the end of "Devin", k characters ahead
\* of its start, and behind an embedded "Devin" that is out of the window of
\* the standalone one
X_DEVIN_AFTER(k) == T_Devin \o Fill(".", k) \o <<"t","o","o","l">>
X_DEVIN_BEFORE(k) == <<"A","I">> \o Fill(".", k) \o T_Devin
X_DEVIN_EMBEDDED == T_Devin \o Fill(".", WINDOW + 1) \o <<"D","e","v","i","n","s"," ","t","o","o","l">>

VALIDATE_TEXTS ==
  { TEXT_EMPTY, TEXT_CURSOR, TEXT_V0,
    X_CURSOR_LOWER, X_CURSOR_PHRASE, X_CURSOR_APP, X_CURSOR_SPLICE,
    X_CURSOR_PLAIN, X_BOLT_PHRASE, X_BOLT_APP, X_BOLT_SPLICE,
    X_WIND_PHRASE, X_WIND_APP, X_V0_VERSION, X_V0_ALONE,
    X_V0_SPACE, X_V0_BOTH, X_V0_COLON, X_V0_EMBEDDED,
    X_V0_PAREN, X_V0_DOT, X_COPILOT_EMBEDDED, X_COPILOT_PLURAL,
    X_COPILOT_GITHUB, X_GEMINI_EMBEDDED, X_PERPLEXITY, X_RELAY_APP,
    X_RELAY_EMBEDDED, X_RELAY_ALONE, X_RELAY_CONTEXT, X_CLAUDE_CONTEXT,
    X_CLAUDE_MONET, X_CLAUDE_CODE, X_DEVIN_ALONE, X_DEVIN_MAINTAIN,
    X_DEVIN_EMBEDDED }
    \cup { X_DEVIN_AFTER(k) : k \in (WINDOW - 5)..(WINDOW - 3) }
    \cup { X_DEVIN_BEFORE(k) : k \in (WINDOW - 3)..(WINDOW - 1) }

VALIDATE_TOOL_LISTS ==
  { << t >> : t \in VALIDATE_TOOLS }
    \cup { << T_Cursor, FIGMA, T_Zed >>, << T_v0, T_Bolt >> }

InitValidate ==
  /\ \E tools \in VALIDATE_TOOL_LISTS :
       mappings = << Course(1, N_BUILD, << Skill(A5, PRIMARY) >>, tools, PRIMARY) >>
  /\ \/ profiles = <<>>
     \/ \E text \in VALIDATE_TEXTS : profiles = << Profile(1, TOPICS_NONE, text) >>
  /\ found = <<>>
  /\ InitHistory

SpecValidate == InitValidate /\ [][ValidateRun]_vars

(***************************************************************************)
(* map_skills.py run over the course profiles                              *)
(***************************************************************************)
\* one entry of course_profiles.json as aggregate_course_profiles writes it
CourseProfile(id, name, topics, syllabus_text) ==
  [course_id |-> id, course_name |-> name, topics |-> topics,
   syllabus_text |-> syllabus_text]

CLASSIFY_NAMES == << N_BAKING, N_VIBE, N_UX, N_PRICING >>

\* answers of the external classifier: valid codes mixed with codes that are
\* not in SKILL_CODES, a repeated code, and empty lists
RESPONSES ==
  { SkillMapping(<< B2, E1, A1 >>, << <<"a","1">>, C1 >>, "hands-on agents course"),
    SkillMapping(<< >>, << <<"A","6">>, A2, A2 >>, "touches on discovery"),
    SkillMapping(<< A3 >>, << >>, "evaluation throughout") }

\* what messages.parse may raise besides anthropic.RateLimitError
EXCEPTIONS == { "APIConnectionError", "ValidationError" }

\* course_profiles.json holds NumCourses courses, ascending course_id; no
\* course_skill_mappings.json has been written yet
InitClassify ==
  /\ profiles = [i \in 1..NumCourses |->
                   CourseProfile(i, CLASSIFY_NAMES[((i - 1) % Len(CLASSIFY_NAMES)) + 1],
                                 TOPICS_NONE, TEXT_EMPTY)]
  /\ mappings = <<>>
  /\ found = <<>>
  /\ InitHistory

\* what no step of map_skills.py touches
ClassifierFrame ==
  UNCHANGED << profiles, removals, primary_assignments, secondary_assignments,
               tool_removed, found, lastOp, prevOp, initial, pipe, snap >>

\* main() without ANTHROPIC_API_KEY: sys.exit(1) before anything is read
ClassifyNoKey ==
  /\ pc # "loop"
  /\ pc' = "exited"
  /\ UNCHANGED << mappings, prev, run_mappings, remaining, parsed_output, calls, outcome >>
  /\ ClassifierFrame

\* main() up to the loop: the profiles and the saved mappings are loaded
ClassifyStart ==
  /\ pc # "loop"
  /\ LET existing == ExistingMappings(mappings, <<>>)
     IN /\ run_mappings' = existing
        /\ remaining' = Remaining(profiles, IdsOf(existing))
  /\ pc' = "loop"
  /\ prev' = mappings
  /\ calls' = <<>>
  /\ outcome' = "none"
  /\ parsed_output' = NoOutput
  /\ UNCHANGED mappings
  /\ ClassifierFrame

\* a loop iteration whose map_course call returns: append, then save
ClassifyOk ==
  /\ pc = "loop" /\ remaining # <<>>
  /\ \E result \in RESPONSES :
       LET course == Head(remaining)
       IN /\ run_mappings' = Append(run_mappings, map_course(course, result))
          /\ parsed_output' = result
          /\ calls' = Append(calls, course.course_id)
  /\ mappings' = run_mappings'
  /\ remaining' = Tail(remaining)
  /\ outcome' = "ok"
  /\ UNCHANGED << pc, prev >>
  /\ ClassifierFrame

\* "except anthropic.RateLimitError" whose retry returns: append, then save
ClassifyRetryOk ==
  /\ pc = "loop" /\ remaining # <<>>
  /\ \E result \in RESPONSES :
       LET course == Head(remaining)
       IN /\ run_mappings' = Append(run_mappings, map_course(course, result))
          /\ parsed_output' = result
          /\ calls' = calls \o << course.course_id, course.course_id >>
  /\ mappings' = run_mappings'
  /\ remaining' = Tail(remaining)
  /\ outcome' = "retry_ok"
  /\ UNCHANGED << pc, prev >>
  /\ ClassifierFrame

\* "except anthropic.RateLimitError" whose retry raises, a RateLimitError or
\* anything else: the exception is raised inside the handler, no other
\* clause of the try statement catches it, and it leaves main()
ClassifyRetryFails ==
  /\ pc = "loop" /\ remaining # <<>>
  /\ pc' = "aborted"
  /\ outcome' = "retry_failed"
  /\ calls' = calls \o << Head(remaining).course_id, Head(remaining).course_id >>
  /\ UNCHANGED << mappings, prev, run_mappings, remaining, parsed_output >>
  /\ ClassifierFrame

\* "except Exception as e": the error record is appended, nothing is saved
ClassifyError ==
  /\ pc = "loop" /\ remaining # <<>>
  /\ \E e \in EXCEPTIONS :
       run_mappings' = Append(run_mappings, ErrorRecord(Head(remaining), e))
  /\ calls' = Append(calls, Head(remaining).course_id)
  /\ remaining' = Tail(remaining)
  /\ outcome' = "error"
  /\ UNCHANGED << mappings, prev, pc, parsed_output >>
  /\ ClassifierFrame

\* the loop is over: the final save
ClassifyFinish ==
  /\ pc = "loop" /\ remaining = <<>>
  /\ mappings' = run_mappings
  /\ pc' = "done"
  /\ UNCHANGED << prev, run_mappings, remaining, parsed_output, calls, outcome >>
  /\ ClassifierFrame

NextClassify ==
  \/ ClassifyNoKey
  \/ ClassifyStart
  \/ ClassifyOk
  \/ ClassifyRetryOk
  \/ ClassifyRetryFails
  \/ ClassifyError
  \/ ClassifyFinish

SpecClassify == InitClassify /\ [][NextClassify]_vars

(***************************************************************************)
(* Properties                                                              *)
(***************************************************************************)
Courses == DOMAIN mappings

\* the entries of a list, as a set
Entries(list) == Range(list)

\* the category letter of a skill code
Category(code) == code[1]

\* C1 as stated: after a pruning run, every tag (c, 0.3) that the course held
\* together with some (c', 0.8) of the same category letter is still there
C1_SamePrefixProtects ==
  lastOp = "prune" =>
    \A i \in Courses : \A s \in Entries(prev[i].skills) :
      ( /\ s.weight = SECONDARY
        /\ \E t \in Entries(prev[i].skills) :
             t.weight = PRIMARY /\ Category(t.code) = Category(s.code) )
      => s \in Entries(mappings[i].skills)

\* the 0.8 tags that keep the 0.3 tag s: for A1 an A-skill other than A1, for
\* A3 and E1 the same code, for a B-skill any B-skill
Protects(t, s) ==
  /\ t.weight = PRIMARY
  /\ \/ s.code = A1 /\ Category(t.code) = "A" /\ t.code # A1
     \/ s.code \in {A3, E1} /\ t.code = s.code
     \/ Category(s.code) = "B" /\ Category(t.code) = "B"

\* C1 amended: after a pruning run, every tag (c, 0.3) that the course held
\* together with a 0.8 tag protecting it (an A-skill other than A1 for A1, the
\* same code for A3 and E1, any B-skill for a B-skill) is still there
C1_Protected ==
  lastOp = "prune" =>
    \A i \in Courses : \A s \in Entries(prev[i].skills) :
      ( /\ s.weight = SECONDARY
        /\ \E t \in Entries(prev[i].skills) : Protects(t, s) )
      => s \in Entries(mappings[i].skills)

\* C1 witness: a pruning run removed a tag of a course and kept a protected
\* 0.3 tag that had no topic to keep it
C1_Witness ==
  /\ lastOp = "prune"
  /\ \E i \in Courses :
       /\ get_topics(mappings[i].course_id) = {}
       /\ \E r \in Entries(removals) : r.course_id = mappings[i].course_id
       /\ \E s \in Entries(prev[i].skills) :
            /\ s.weight = SECONDARY
            /\ \E t \in Entries(prev[i].skills) : Protects(t, s)
            /\ s \in Entries(mappings[i].skills)

\* the tags of a list that carry `code`
TagsOf(skills, code) == { k \in DOMAIN skills : skills[k].code = code }

\* a course holds at most one tag per code
OneTagPerCode(ms) ==
  \A i \in DOMAIN ms : \A j, k \in DOMAIN ms[i].skills :
    ms[i].skills[j].code = ms[i].skills[k].code => j = k

\* a is b with some entries left out, the others in b's order
RECURSIVE IsSubList(_, _)
IsSubList(a, b) ==
  IF a = <<>> THEN TRUE
  ELSE IF b = <<>> THEN FALSE
  ELSE IF Head(a) = Head(b) THEN IsSubList(Tail(a), Tail(b))
  ELSE IsSubList(a, Tail(b))

\* the tag list, tool list and toolWeight of every course are those of ms
SameStore(ms) ==
  /\ DOMAIN mappings = DOMAIN ms
  /\ \A i \in Courses :
       /\ mappings[i].skills = ms[i].skills
       /\ mappings[i].tools = ms[i].tools
       /\ mappings[i].tool_weight = ms[i].tool_weight

\* C2: pipeline idempotence. After assign, validate, prune, assign, validate,
\* prune run from the initial store (pipe = 6), every course's tag list, tool
\* list and toolWeight are what the first assign, validate, prune left (snap).
C2_PipelineIdempotent == pipe = 6 => SameStore(snap)

\* the pipeline ran twice, and its first run added an A5 tag, removed a tool
\* and pruned a tag
C2_Witness ==
  /\ pipe = 6
  /\ \E i \in Courses : has_a5(snap[i]) /\ ~has_a5(initial[i])
  /\ \E i \in Courses : Len(snap[i].tools) < Len(initial[i].tools)
  /\ \E i \in Courses : \E t \in Entries(initial[i].skills) : t \notin Entries(snap[i].skills)

\* C3 as stated: an assignment run that follows an assignment run changes no
\* course, and no course ends with two tags carrying the A5 code.
C3_NoTwoA5 ==
  (lastOp = "assign" /\ prevOp = "assign") =>
    /\ mappings = prev
    /\ \A i \in Courses : Cardinality(TagsOf(mappings[i].skills, A5)) <= 1

\* C3: assignment idempotence. An assignment run that follows an assignment
\* run changes no course, and an assignment run leaves at most one A5 tag on
\* every course that held at most one A5 tag before it.
C3_AssignIdempotent ==
  /\ (lastOp = "assign" /\ prevOp = "assign") => mappings = prev
  /\ lastOp = "assign" =>
       \A i \in Courses :
         Cardinality(TagsOf(prev[i].skills, A5)) <= 1
           => Cardinality(TagsOf(mappings[i].skills, A5)) <= 1

\* the engine ran twice in a row on the initial store and its first run added
\* an A5 tag to a course
C3_Witness ==
  /\ lastOp = "assign" /\ prevOp = "assign"
  /\ \E i \in Courses :
       /\ TagsOf(initial[i].skills, A5) = {}
       /\ Cardinality(TagsOf(mappings[i].skills, A5)) = 1
       /\ Len(mappings[i].skills) = Len(initial[i].skills) + 1

\* C4: if every course of the initial store holds at most one tag per code,
\* every course holds at most one tag per code after any sequence of runs.
C4_OneTagPerCode == OneTagPerCode(initial) => OneTagPerCode(mappings)

\* a store of one tag per code on which the engine added an A5 tag and the
\* pruning removed a tag
C4_Witness ==
  /\ OneTagPerCode(initial)
  /\ lastOp # "none"
  /\ \E i \in Courses : has_a5(mappings[i]) /\ ~has_a5(initial[i])
  /\ \E i \in Courses : \E t \in Entries(initial[i].skills) : t \notin Entries(mappings[i].skills)

\* C5: the validator and the pruning only remove entries. After a validator
\* run every tool list is an order-preserving sub-list of the one before and
\* every tag list is unchanged; after a pruning run every tag list is an
\* order-preserving sub-list of the one before (so no tag is added and no
\* tag's weight is changed) and every tool list and toolWeight is unchanged.
C5_OnlyRemove ==
  /\ lastOp \in {"validate", "prune"} => DOMAIN mappings = DOMAIN prev
  /\ lastOp = "validate" =>
       \A i \in Courses :
         /\ IsSubList(mappings[i].tools, prev[i].tools)
         /\ mappings[i].skills = prev[i].skills
  /\ lastOp = "prune" =>
       \A i \in Courses :
         /\ IsSubList(mappings[i].skills, prev[i].skills)
         /\ mappings[i].tools = prev[i].tools
         /\ mappings[i].tool_weight = prev[i].tool_weight

\* assign, validate, prune ran: the validator kept two tools of a course and
\* removed others, and the pruning removed a tag of a course and kept others
C5_Witness ==
  /\ pipe = 3
  /\ \E i \in Courses :
       /\ Len(prev[i].tools) < Len(initial[i].tools)
       /\ Len(prev[i].tools) >= 2
  /\ \E i \in Courses :
       /\ Len(mappings[i].skills) < Len(prev[i].skills)
       /\ mappings[i].skills # <<>>

\* C6: the assignment engine is append-only. After a run every course's tag
\* list is the one before the run, or that list with one tag (A5, 0.8) or
\* (A5, 0.3) appended at the end, and a course that held an A5 tag before the
\* run is unchanged.
C6_AppendOnly ==
  lastOp = "assign" =>
    /\ DOMAIN mappings = DOMAIN prev
    /\ \A i \in Courses :
         /\ \/ mappings[i].skills = prev[i].skills
            \/ mappings[i].skills = Append(prev[i].skills, Skill(A5, PRIMARY))
            \/ mappings[i].skills = Append(prev[i].skills, Skill(A5, SECONDARY))
         /\ TagsOf(prev[i].skills, A5) # {} => mappings[i] = prev[i]

\* a run appended (A5, 0.3) behind the tags of one course and left alone a
\* course that held an A5 tag and has a strong topic
C6_Witness ==
  /\ lastOp = "assign"
  /\ \E i \in Courses :
       /\ prev[i].skills # <<>>
       /\ mappings[i].skills = Append(prev[i].skills, Skill(A5, SECONDARY))
  /\ \E i \in Courses :
       /\ TagsOf(prev[i].skills, A5) # {}
       /\ profile_topics(prof_by_id(prev[i].course_id)) \cap PRIMARY_TOPICS # {}
       /\ mappings[i] = prev[i]

\* C8: toolWeight reset. After a validator run a course whose tool list was
\* non-empty before and is empty after has toolWeight 0, and a course whose
\* tool list is non-empty after has the toolWeight it had before.
C8_ToolWeightReset ==
  lastOp = "validate" =>
    \A i \in Courses :
      /\ (prev[i].tools # <<>> /\ mappings[i].tools = <<>>) => mappings[i].tool_weight = 0
      /\ mappings[i].tools # <<>> => mappings[i].tool_weight = prev[i].tool_weight

\* a run emptied the tool list of a course of non-zero toolWeight and removed
\* some, not all, tools of another
C8_Witness ==
  /\ lastOp = "validate"
  /\ \E i \in Courses :
       prev[i].tools # <<>> /\ prev[i].tool_weight # 0 /\ mappings[i].tools = <<>>
  /\ \E i \in Courses :
       /\ mappings[i].tools # <<>>
       /\ Len(mappings[i].tools) < Len(prev[i].tools)
       /\ prev[i].tool_weight # 0

\* C10: a validator run that follows a validator run changes no tool list and
\* no toolWeight (and removes no tool); a pruning run that follows a pruning
\* run changes no tag list and removes nothing.
C10_SafeToRerun ==
  /\ (lastOp = "validate" /\ prevOp = "validate") =>
       /\ tool_removed = <<>>
       /\ \A i \in Courses :
            /\ mappings[i].tools = prev[i].tools
            /\ mappings[i].tool_weight = prev[i].tool_weight
  /\ (lastOp = "prune" /\ prevOp = "prune") =>
       /\ removals = <<>>
       /\ \A i \in Courses : mappings[i].skills = prev[i].skills

\* the validator, then the pruning twice: tools had been removed from a course
\* and a course has lost a tag to the pruning
C10_Witness ==
  /\ lastOp = "prune" /\ prevOp = "prune"
  /\ \E i \in Courses : Len(mappings[i].tools) < Len(initial[i].tools)
  /\ \E i \in Courses :
       /\ Len(mappings[i].skills) < Len(initial[i].skills)
       /\ \E t \in Entries(mappings[i].skills) : t.weight = SECONDARY

\* C9: course-order independence. Whatever order a run visits the courses in,
\* the store it leaves is the one the run in list order leaves.
C9_OrderIndependent ==
  /\ lastOp = "assign" =>
       mappings = AssignLoop(ListOrder(Len(prev)), prev, <<>>, <<>>).mappings
  /\ lastOp = "validate" =>
       mappings = ValidateLoop(ListOrder(Len(prev)), prev, <<>>).mappings
  /\ lastOp = "prune" =>
       mappings = PruneLoop(ListOrder(Len(prev)), prev, <<>>).mappings

\* a pruning run visited a later course before an earlier one and removed a
\* tag from each
C9_Witness ==
  /\ lastOp = "prune"
  /\ \E j, k \in DOMAIN removals :
       j < k /\ removals[j].course_id > removals[k].course_id

\* the strong topics, the tool-count and toolWeight thresholds of C7
C7_STRONG_TOPICS == { <<"P","r","o","t","o","t","y","p","i","n","g">>, <<"C","o","d","i","n","g"," ","w","i","t","h"," ","A","I">> }

\* what C7 says the engine adds to a course without an A5 tag: 8 for
\* (A5, 0.8), 3 for (A5, 0.3), 0 for no tag
C7_Expected(m) ==
  LET topics == profile_topics(prof_by_id(m.course_id))
      vibe == Cardinality({ k \in DOMAIN m.tools : m.tools[k] \in VIBE_TOOLS })
  IN IF \/ topics \cap C7_STRONG_TOPICS # {}
        \/ SearchI(m.course_name, NAME_RE)
        \/ (vibe >= 3 /\ m.tool_weight >= 8)
     THEN 8
     ELSE IF vibe >= 1 THEN 3 ELSE 0

\* C7: assignment decision. For a course without an A5 tag a run adds
\* (A5, 0.8) iff its topic set meets {Prototyping, Coding with AI}, or its
\* name matches a name pattern, or it has at least 3 vibe-coding tools and a
\* toolWeight of at least 0.8; otherwise it adds (A5, 0.3) iff it has at least
\* one vibe-coding tool; otherwise it adds no tag.
C7_Decision ==
  lastOp = "assign" =>
    \A i \in Courses :
      TagsOf(prev[i].skills, A5) = {} =>
        LET e == C7_Expected(prev[i])
        IN mappings[i].skills =
             IF e = 0 THEN prev[i].skills ELSE Append(prev[i].skills, Skill(A5, e))

\* a run added (A5, 0.3) to a course of three vibe-coding tools whose
\* toolWeight is below 0.8 and whose topics and name match nothing
C7_Witness ==
  /\ lastOp = "assign"
  /\ \E i \in Courses :
       /\ TagsOf(prev[i].skills, A5) = {}
       /\ Cardinality({ k \in DOMAIN prev[i].tools : prev[i].tools[k] \in VIBE_TOOLS }) = 3
       /\ prev[i].tool_weight = SECONDARY
       /\ mappings[i].skills = Append(prev[i].skills, Skill(A5, SECONDARY))

(***************************************************************************)
(* Properties of the evidence validator                                    *)
(***************************************************************************)
\* the text the validator read for course i in the run just made
TextOf(i) == prof_by_id(prev[i].course_id).syllabus_text

\* the run just made returned true for `tool` on course i
Kept(i, tool) == tool \in Range(mappings[i].tools)

\* `name` stands at offset p of text, with no letter, digit or underscore
\* right before or right after it
StandaloneAt(text, name, p) ==
  /\ MatchAt(text, name, p)
  /\ (p = 0 \/ ~IsWord(text[p]))
  /\ (p + Len(name) = Len(text) \/ ~IsWord(text[p + Len(name) + 1]))

\* the offsets at which `name` stands in text, in any case
AnyCaseAt(text, name) ==
  { p \in 0..(Len(text) - Len(name)) : MatchAt(Lower(text), Lower(name), p) }

\* the excluded phrases of the exclusion-phrase tools
C11_Phrases(tool) ==
  IF tool = T_Cursor THEN CURSOR_EXCLUDE
  ELSE IF tool = T_Bolt THEN BOLT_EXCLUDE
  ELSE WINDSURF_EXCLUDE

\* offset p .. p + n of text lies inside an occurrence of an excluded phrase
C11_InPhrase(text, pat, p, n) ==
  \E a \in 0..p : \E b \in Ends(Lower(text), pat, a) : p + n <= b

\* C11 as stated: exclusion correctness for Cursor, Bolt and Windsurf. A text
\* in which every occurrence of the token lies inside an excluded phrase
\* yields false, and a text with a standalone capitalized occurrence outside
\* the excluded phrases yields true.
C11_Exclusion ==
  lastOp = "validate" =>
    \A i \in Courses : \A t \in Range(prev[i].tools) \cap {T_Cursor, T_Bolt, T_Windsurf} :
      LET text == TextOf(i)
          free == { p \in AnyCaseAt(text, t) :
                      ~C11_InPhrase(text, C11_Phrases(t), p, Len(t)) }
      IN /\ free = {} => ~Kept(i, t)
         /\ (\E p \in free : StandaloneAt(text, t, p)) => Kept(i, t)

\* the characters the v0 pattern accepts behind the token
C12_PUNCTUATION == {",", ";", ".", "!", "?", ")"}

\* "v0" stands at offset p as a token of its own and no dot-digit follows
C12_TokenAt(text, p) ==
  LET e == p + Len(T_v0)
  IN /\ MatchAt(text, T_v0, p)
     /\ (p = 0 \/ IsSpace(text[p]))
     /\ (e = Len(text) \/ IsSpace(text[e + 1]) \/ text[e + 1] \in C12_PUNCTUATION)
     /\ ~(e + 2 <= Len(text) /\ text[e + 1] = "." /\ text[e + 2] \in DIGITS)

\* C12 as stated: numeric-suffix exclusion for v0. The validator returns true
\* iff the text holds a standalone "v0" token that is not followed by a dot
\* and a digit.
C12_V0 ==
  lastOp = "validate" =>
    \A i \in Courses :
      T_v0 \in Range(prev[i].tools) =>
        (Kept(i, T_v0) <=> \E p \in 0..Len(TextOf(i)) : C12_TokenAt(TextOf(i), p))

\* the context vocabulary of the context-window tools
C13_Context(tool) ==
  IF tool = T_Claude THEN CLAUDE_CONTEXT
  ELSE IF tool = T_Devin THEN DEVIN_CONTEXT
  ELSE RELAY_CONTEXT

\* a shortcut of the context-window tools applies to the text
C13_Shortcut(tool, text) ==
  \/ tool = T_Relay /\ Contains(text, <<"R","e","l","a","y",".","a","p","p">>)
  \/ tool = T_Claude /\ Contains(Lower(text), <<"c","l","a","u","d","e"," ","c","o","d","e">>)

\* a term of the vocabulary lies wholly within w characters before the start
\* or after the end of the occurrence of `name` at offset p
C13_TermWithin(text, name, vocabulary, p, w) ==
  \E k \in DOMAIN vocabulary : \E q \in 0..Len(text) :
    /\ MatchAt(Lower(text), Lower(vocabulary[k]), q)
    /\ q >= p - w
    /\ q + Len(vocabulary[k]) <= p + Len(name) + w

\* C13 as stated: context-window co-occurrence for Claude, Devin and Relay.
\* When no shortcut applies the validator returns true only if a standalone
\* capitalized occurrence of the name has a context term within 150
\* characters before or after that occurrence.
C13_ContextWindow ==
  lastOp = "validate" =>
    \A i \in Courses : \A t \in Range(prev[i].tools) \cap {T_Claude, T_Devin, T_Relay} :
      (~C13_Shortcut(t, TextOf(i)) /\ Kept(i, t)) =>
        \E p \in 0..Len(TextOf(i)) :
          /\ StandaloneAt(TextOf(i), t, p)
          /\ C13_TermWithin(TextOf(i), t, C13_Context(t), p, 150)

\* C14: window boundary. For a context-window tool that stands in the text as
\* a standalone capitalized token, with no shortcut, the validator returns
\* true iff a context term lies wholly within WINDOW characters before the
\* start or after the end of an occurrence of the name: a term whose far end
\* is exactly WINDOW characters away counts, a term that reaches one
\* character further does not.
C14_WindowBoundary ==
  lastOp = "validate" =>
    \A i \in Courses : \A t \in Range(prev[i].tools) \cap {T_Claude, T_Devin, T_Relay} :
      LET text == TextOf(i)
      IN (/\ ~C13_Shortcut(t, text)
          /\ \E p \in 0..Len(text) : StandaloneAt(text, t, p))
         => (Kept(i, t) <=>
               \E p \in 0..Len(text) :
                 /\ MatchAt(text, t, p)
                 /\ C13_TermWithin(text, t, C13_Context(t), p, WINDOW))

\* the validator kept Devin on a text whose only context term ends exactly
\* WINDOW characters behind the end of the name
C14_Witness ==
  /\ lastOp = "validate"
  /\ prev[1].tools = << T_Devin >>
  /\ TextOf(1) = X_DEVIN_AFTER(WINDOW - 4)
  /\ Len(TextOf(1)) = Len(T_Devin) + WINDOW
  /\ Kept(1, T_Devin)

\* C15 as stated: word-boundary anchoring for Gemini, Perplexity and Copilot.
\* The validator returns true iff the capitalized name stands in the text as
\* a standalone token.
C15_Anchoring ==
  lastOp = "validate" =>
    \A i \in Courses : \A t \in Range(prev[i].tools) \cap {T_Gemini, T_Perplexity, T_Copilot} :
      Kept(i, t) <=> \E p \in 0..Len(TextOf(i)) : StandaloneAt(TextOf(i), t, p)

\* C16: domain-suffix shortcut. Whenever the text contains "Relay.app" the
\* validator returns true for Relay.
C16_RelayApp ==
  lastOp = "validate" =>
    \A i \in Courses :
      (/\ T_Relay \in Range(prev[i].tools)
       /\ \E p \in 0..Len(TextOf(i)) : MatchAt(TextOf(i), <<"R","e","l","a","y",".","a","p","p">>, p))
      => Kept(i, T_Relay)

\* the validator kept Relay on a text that holds "Relay.app" inside a longer
\* word and no standalone "Relay"
C16_Witness ==
  /\ lastOp = "validate"
  /\ prev[1].tools = << T_Relay >>
  /\ TextOf(1) = X_RELAY_EMBEDDED
  /\ ~\E p \in 0..Len(TextOf(1)) : StandaloneAt(TextOf(1), T_Relay, p)
  /\ Kept(1, T_Relay)

\* the names of the Tier 2 table
C17_TIER2 ==
  { T_Claude, T_Cursor, T_Bolt, T_v0, T_Make, T_Gemini, T_Copilot, T_Perplexity,
    T_Windsurf, T_Devin, T_Relay }

\* the two characters are the same letter in either case, or the same character
C17_SameLetter(c, d) ==
  \/ c = d
  \/ \E k \in 1..26 : {c, d} \subseteq {UPPER[k], LOWER[k]}

\* C17: Tier 1 and fallback rule. For a non-empty text and a name of the
\* Tier 1 table or of no tier table, the validator returns true iff the name
\* occurs in the text, letter case ignored.
C17_Substring ==
  lastOp = "validate" =>
    \A i \in Courses : \A t \in Range(prev[i].tools) :
      (TextOf(i) # <<>> /\ (t \in TIER1_TOOLS \/ t \notin C17_TIER2)) =>
        (Kept(i, t) <=>
           \E p \in 0..(Len(TextOf(i)) - Len(t)) :
             \A k \in 1..Len(t) : C17_SameLetter(TextOf(i)[p + k], t[k]))

\* the validator kept the unrecognized name "Zed" on a text that holds it in
\* another case only, and dropped a Tier 2 name beside it
C17_Witness ==
  /\ lastOp = "validate"
  /\ prev[1].tools = << T_Cursor, FIGMA, T_Zed >>
  /\ TextOf(1) = X_CLAUDE_CODE
  /\ ~Contains(TextOf(1), T_Zed)
  /\ mappings[1].tools = << T_Zed >>

\* C18: empty text. The validator returns false for every tool name on an
\* empty text, and a run removes every tool of a course whose syllabus text
\* is empty or absent.
C18_EmptyText ==
  /\ \A t \in VALIDATE_TOOLS \cup TIER1_TOOLS : ~tool_found_in(t, <<>>)
  /\ lastOp = "validate" =>
       \A i \in Courses : TextOf(i) = <<>> => mappings[i].tools = <<>>

\* a run emptied a three-tool list of a course without a profile, and its
\* toolWeight is 0
C18_Witness ==
  /\ lastOp = "validate"
  /\ profiles = <<>>
  /\ Len(prev[1].tools) = 3
  /\ mappings[1].tools = <<>>
  /\ mappings[1].tool_weight = 0

(***************************************************************************)
(* Properties of the pruning rules                                         *)
(***************************************************************************)
\* the n-th pruning rule
ApplyRule(n, m, topics, st) ==
  IF n = 1 THEN Rule1(m, topics, st)
  ELSE IF n = 2 THEN Rule2(m, topics, st)
  ELSE IF n = 3 THEN Rule3(m, topics, st)
  ELSE IF n = 4 THEN Rule4(m, topics, st)
  ELSE Rule5(m, topics, st)

\* the rules applied to course m one after the other, in `order`
RECURSIVE ApplyRules(_, _, _, _)
ApplyRules(order, m, topics, st) ==
  IF order = <<>> THEN st
  ELSE ApplyRules(Tail(order), m, topics, ApplyRule(Head(order), m, topics, st))

\* C19: the pruning rules are independent of one another. For a course that
\* holds at most one tag per code, the five rules applied in any order leave
\* the tag list that the run (Rule 1 to Rule 5) left.
C19_RuleOrder ==
  (lastOp = "prune" /\ OneTagPerCode(prev)) =>
    \A i \in Courses : \A order \in Orders(5) :
      ApplyRules(order, prev[i], get_topics(prev[i].course_id),
                 [skills |-> prev[i].skills, removals |-> <<>>]).skills
        = mappings[i].skills

\* a run on a course of one tag per code in which two rules removed a tag
\* each and a third tag was kept
C19_Witness ==
  /\ lastOp = "prune"
  /\ OneTagPerCode(prev)
  /\ Len(prev[1].skills) = 3
  /\ Len(mappings[1].skills) = 1
  /\ \E j, k \in DOMAIN removals :
       removals[j].code[1] # removals[k].code[1]

\* C20: removal-log completeness. After a pruning run the removal log holds an
\* entry for a course and a (code, weight) pair iff the pair was on the course
\* before the run and is absent after it, and every entry carries the course
\* id, the course name and the topics of the course.
C20_RemovalLog ==
  lastOp = "prune" =>
    /\ \A i \in Courses :
         \A s \in Entries(prev[i].skills)
                    \cup { Skill(removals[k].code, removals[k].weight) : k \in DOMAIN removals } :
           (\E k \in DOMAIN removals :
              /\ removals[k].course_id = prev[i].course_id
              /\ removals[k].code = s.code
              /\ removals[k].weight = s.weight)
           <=> (s \in Entries(prev[i].skills) /\ s \notin Entries(mappings[i].skills))
    /\ \A k \in DOMAIN removals :
         \E i \in Courses :
           /\ removals[k].course_id = prev[i].course_id
           /\ removals[k].course_name = prev[i].course_name
           /\ removals[k].topics = get_topics(prev[i].course_id)

\* a run logged the removal of two tags of a course that has topics, and kept
\* a third tag
C20_Witness ==
  /\ lastOp = "prune"
  /\ Len(removals) = 2
  /\ removals[1].code # removals[2].code
  /\ removals[1].topics # {}
  /\ Len(prev[1].skills) = 3
  /\ Len(mappings[1].skills) = 1

(***************************************************************************)
(* Properties of the store as a whole                                      *)
(***************************************************************************)
\* the course ids of a store, in list order
C21_Ids(ms) == [i \in DOMAIN ms |-> ms[i].course_id]

\* C21: no course is ever dropped. After every run of every script the store
\* lists the same course ids as before the run, every record has the fields
\* it had, and a course whose last tag was pruned or whose last tool was
\* removed holds an empty list in that field.
C21_NoCourseDropped ==
  lastOp # "none" =>
    /\ C21_Ids(mappings) = C21_Ids(prev)
    /\ { C21_Ids(mappings)[i] : i \in Courses } = { C21_Ids(initial)[i] : i \in DOMAIN initial }
    /\ \A i \in Courses :
         /\ DOMAIN mappings[i] = DOMAIN prev[i]
         /\ {"skills", "tools"} \subseteq DOMAIN mappings[i]
         /\ IsSubList(mappings[i].tools, prev[i].tools)
         /\ lastOp # "assign" => IsSubList(mappings[i].skills, prev[i].skills)
         /\ (lastOp = "prune" /\ \A s \in Entries(prev[i].skills) :
                                   \E r \in Entries(removals) :
                                     /\ r.course_id = prev[i].course_id
                                     /\ r.code = s.code /\ r.weight = s.weight)
              => mappings[i].skills = <<>>
         /\ (lastOp = "validate" /\ \A t \in Entries(prev[i].tools) :
                                      \E r \in Entries(tool_removed) :
                                        /\ r.course_id = prev[i].course_id
                                        /\ t \in Entries(r.removed))
              => mappings[i].tools = <<>>

\* a validator run removed the last tool of a course, and the pruning run
\* after it removed the last tag of that course: the course is still listed,
\* with two empty lists
C21_Witness ==
  /\ lastOp = "prune" /\ prevOp = "validate"
  /\ \E i \in Courses :
       /\ initial[i].tools # <<>>
       /\ prev[i].tools = <<>>
       /\ prev[i].skills # <<>>
       /\ mappings[i].skills = <<>>
       /\ mappings[i].tools = <<>>
       /\ mappings[i].course_id = initial[i].course_id

\* the course id has no entry in course_profiles.json
C22_NoEntry(course_id) ==
  \A k \in DOMAIN profiles : profiles[k].course_id # course_id

\* the weight the assignment adds to m on an empty topic set, 0 for none
C22_AssignNoTopics(m) ==
  LET vibe == Cardinality({ k \in DOMAIN m.tools : m.tools[k] \in VIBE_TOOLS })
  IN IF TagsOf(m.skills, A5) # {} THEN 0
     ELSE IF SearchI(m.course_name, NAME_RE) \/ (vibe >= 3 /\ m.tool_weight >= 8) THEN 8
     ELSE IF vibe >= 1 THEN 3
     ELSE 0

\* C22: missing cross-reference. Every run processes every course of the
\* store, and a course whose id has no entry in the course profiles is
\* decided as on an empty record: the assignment as if its topic set were
\* empty, the validator as if its text were empty (every tool removed, the
\* toolWeight of a non-empty list reset), the pruning as if its topic set
\* were empty.
C22_MissingProfile ==
  /\ lastOp = "assign" =>
       \A i \in Courses :
         /\ mappings[i] = AssignCourse(prev[i])
         /\ C22_NoEntry(prev[i].course_id) =>
              LET w == C22_AssignNoTopics(prev[i])
              IN mappings[i].skills =
                   IF w = 0 THEN prev[i].skills ELSE Append(prev[i].skills, Skill(A5, w))
  /\ lastOp = "validate" =>
       \A i \in Courses :
         /\ mappings[i] = ValidateCourse(prev[i])
         /\ C22_NoEntry(prev[i].course_id) =>
              /\ mappings[i].tools = SelectSeq(prev[i].tools, LAMBDA t : tool_found_in(t, <<>>))
              /\ mappings[i].tools = <<>>
              /\ mappings[i].tool_weight = IF prev[i].tools = <<>> THEN prev[i].tool_weight ELSE 0
  /\ lastOp = "prune" =>
       \A i \in Courses :
         /\ mappings[i].skills = PruneCourse(prev[i]).skills
         /\ C22_NoEntry(prev[i].course_id) =>
              mappings[i].skills =
                ApplyRules(<< 1, 2, 3, 4, 5 >>, prev[i], {},
                           [skills |-> prev[i].skills, removals |-> <<>>]).skills

\* assign, validate, prune ran on a store whose first course has no profile
\* and whose second course has one: the first got an A5 tag, lost its tools
\* and lost a tag, and the second lost a tag too
C22_Witness ==
  /\ pipe = 3
  /\ Len(mappings) >= 2
  /\ C22_NoEntry(mappings[1].course_id)
  /\ ~C22_NoEntry(mappings[2].course_id)
  /\ has_a5(mappings[1]) /\ ~has_a5(initial[1])
  /\ initial[1].tools # <<>> /\ mappings[1].tools = <<>>
  /\ \E r \in Entries(removals) : r.course_id = mappings[1].course_id
  /\ \E r \in Entries(removals) : r.course_id = mappings[2].course_id

(***************************************************************************)
(* Properties of the classifier step                                       *)
(***************************************************************************)
\* the record the loop appended last
LastRecord == run_mappings[Len(run_mappings)]

\* C23 as stated: failure isolation in the classifier batch loop. No failure
\* while classifying a course, a rate-limit error repeated on the retry
\* included, ends the run before the remaining courses are processed: after
\* a failed iteration the loop is still running, the failing course is
\* recorded with empty primary and secondary skill lists, and the loop has
\* moved on to the next course.
C23_FailureIsolation ==
  /\ pc # "aborted"
  /\ (pc = "loop" /\ outcome \in { "error", "retry_failed" }) =>
       /\ run_mappings # <<>>
       /\ LastRecord.course_id = calls[Len(calls)]
       /\ LastRecord.primary_skills = <<>>
       /\ LastRecord.secondary_skills = <<>>
       /\ LastRecord.course_id \notin IdsOf(remaining)

\* the codes of the taxonomy: a category letter A to D and a digit 1 to 5
C24_VALID ==
  { << l, d >> : l \in { "A", "B", "C", "D" }, d \in { "1", "2", "3", "4", "5" } }

\* the valid codes of a list, in the order of the list
RECURSIVE C24_KeepValid(_)
C24_KeepValid(codes) ==
  IF codes = <<>> THEN <<>>
  ELSE IF Head(codes) \in C24_VALID THEN << Head(codes) >> \o C24_KeepValid(Tail(codes))
  ELSE C24_KeepValid(Tail(codes))

\* every code of both skill lists of every record of the list is valid
C24_AllValid(list) ==
  \A k \in DOMAIN list :
    Range(list[k].primary_skills) \cup Range(list[k].secondary_skills) \subseteq C24_VALID

\* C24: invalid tag codes are discarded at the boundary. Every code in the
\* primary_skills and secondary_skills of every mapping record, in memory and
\* saved, is a member of the valid code list, and the record of a classified
\* course holds the valid codes of the classifier's answer in the order of
\* the answer, the other codes dropped.
C24_ValidCodes ==
  /\ C24_AllValid(run_mappings)
  /\ C24_AllValid(mappings)
  /\ (pc = "loop" /\ outcome \in { "ok", "retry_ok" }) =>
       /\ LastRecord.primary_skills = C24_KeepValid(parsed_output.primary_skills)
       /\ LastRecord.secondary_skills = C24_KeepValid(parsed_output.secondary_skills)

\* the classifier answered B2, E1, A1 and a1, C1 for a course: the saved
\* record holds B2, A1 and C1
C24_Witness ==
  /\ pc = "loop" /\ outcome = "ok"
  /\ parsed_output.primary_skills = << B2, E1, A1 >>
  /\ mappings # <<>>
  /\ mappings[Len(mappings)].primary_skills = << B2, A1 >>
  /\ mappings[Len(mappings)].secondary_skills = << C1 >>

\* C30: classifier resume. A run never gives map_course a course whose id was
\* in the saved mappings when the run started, and the records saved then
\* stay as they were; when a run completes, every course of the profiles has
\* exactly one mapping record; after each successful classification the saved
\* mappings are all the records the run holds.
C30_Resume ==
  /\ pc \in { "loop", "done", "aborted" } =>
       /\ \A k \in DOMAIN calls : calls[k] \notin IdsOf(prev)
       /\ Len(mappings) >= Len(prev)
       /\ \A k \in DOMAIN prev : mappings[k] = prev[k]
  /\ pc = "done" =>
       \A c \in DOMAIN profiles :
         Cardinality({ k \in DOMAIN mappings :
                         mappings[k].course_id = profiles[c].course_id }) = 1
  /\ (pc = "loop" /\ outcome \in { "ok", "retry_ok" }) => mappings = run_mappings

\* a run that found saved records completed: it gave map_course the other
\* courses only, and every course of the profiles has its record
C30_Witness ==
  /\ pc = "done"
  /\ prev # <<>>
  /\ calls # <<>>
  /\ Len(mappings) = Len(profiles)
  /\ Len(mappings) > Len(prev)
  /\ \A k \in DOMAIN calls : calls[k] \notin IdsOf(prev)

(***************************************************************************)
(* Properties of the single pruning rules                                  *)
(***************************************************************************)
\* the tag list holds the pair (code, weight)
C25_Has(skills, code, weight) ==
  \E k \in DOMAIN skills : skills[k].code = code /\ skills[k].weight = weight

\* the tag list without the pair (code, weight)
C25_Without(skills, code, weight) ==
  SelectSeq(skills, LAMBDA s : ~(s.code = code /\ s.weight = weight))

\* a keyword of the list occurs in the lower-cased course name
C25_NameHas(m, keywords) ==
  \E kw \in keywords : Contains(Lower(m.course_name), kw)

\* the pair Rule n targets
C25_Target(n) ==
  IF n = 1 THEN Skill(A1, 8)
  ELSE IF n = 2 THEN Skill(A1, 3)
  ELSE IF n = 3 THEN Skill(A3, 3)
  ELSE Skill(E1, 3)

\* some keep condition of Rule n holds for course m on the tag list `skills`
C25_Keep(n, m, topics, skills) ==
  IF n = 1 THEN
    \/ topics \cap PM_AI_TOPICS # {}
    \/ \E s \in Range(skills) : s.code[1] = "A" /\ s.code # A1 /\ s.weight = 8
    \/ C25_NameHas(m, PM_NAME_KEYWORDS_R1)
  ELSE IF n = 2 THEN
    \/ topics \cap PM_AI_TOPICS # {}
    \/ \E s \in Range(skills) : s.code[1] = "A" /\ s.weight = 8
    \/ C25_NameHas(m, PM_NAME_KEYWORDS_R1 \cup { <<"p","r","i","c","i","n","g">> })
  ELSE IF n = 3 THEN
    \/ C25_Has(skills, A3, 8)
    \/ C25_NameHas(m, EVAL_KEYWORDS)
    \/ topics \cap EVAL_TOPICS # {}
    \/ (topics \cap PM_AI_TOPICS # {} /\ topics \cap TECHNICAL_AI_TOPICS # {})
  ELSE
    \/ C25_Has(skills, E1, 8)
    \/ topics \cap DESIGN_TOPICS # {}
    \/ C25_NameHas(m, DESIGN_NAME_KW)
    \/ FIGMA \in Range(m.tools)

\* the tag list of course m when Rule n + 1 is reached: each rule before it
\* has removed its pair iff the pair was there and no keep condition held
RECURSIVE C25_After(_, _, _)
C25_After(n, m, topics) ==
  IF n = 0 THEN m.skills
  ELSE LET before == C25_After(n - 1, m, topics)
           t == C25_Target(n)
       IN IF C25_Has(before, t.code, t.weight) /\ ~C25_Keep(n, m, topics, before)
          THEN C25_Without(before, t.code, t.weight)
          ELSE before

\* the run logged the removal of the pair from the course
C25_Logged(course_id, code, weight) ==
  \E r \in Entries(removals) :
    r.course_id = course_id /\ r.code = code /\ r.weight = weight

\* C25: rule evaluation for Rules 1 to 4. The pair a rule targets, if present
\* when the rule is reached, is removed iff none of the rule's keep conditions
\* holds then: for every course and every rule the removal is logged and the
\* pair is gone after the run iff no keep condition held, and what the four
\* rules leave is the tag list after the run, B-prefixed tags at 0.3 aside.
C25_RuleEvaluation ==
  lastOp = "prune" =>
    \A i \in Courses :
      LET m == prev[i]
          topics == get_topics(m.course_id)
          NotB3(s) == ~(s.code[1] = "B" /\ s.weight = 3)
      IN /\ \A n \in 1..4 :
              LET before == C25_After(n - 1, m, topics)
                  t == C25_Target(n)
              IN C25_Has(before, t.code, t.weight) =>
                   /\ C25_Logged(m.course_id, t.code, t.weight)
                        <=> ~C25_Keep(n, m, topics, before)
                   /\ ~C25_Has(mappings[i].skills, t.code, t.weight)
                        <=> ~C25_Keep(n, m, topics, before)
         /\ SelectSeq(mappings[i].skills, NotB3) = SelectSeq(C25_After(4, m, topics), NotB3)

\* a run on a course without topics named 'Intro to Baking' that has the
\* Figma tool: A1 at 0.3 was removed, E1 at 0.3 was kept
C25_Witness ==
  /\ lastOp = "prune"
  /\ get_topics(prev[1].course_id) = {}
  /\ prev[1].course_name = N_BAKING
  /\ FIGMA \in Range(prev[1].tools)
  /\ C25_Has(prev[1].skills, A1, 3)
  /\ C25_Has(prev[1].skills, E1, 3)
  /\ ~C25_Has(prev[1].skills, E1, 8)
  /\ C25_Logged(prev[1].course_id, A1, 3)
  /\ C25_Has(mappings[1].skills, E1, 3)

\* the B-prefixed tags at 0.3 of a tag list, in list order
C26_B3(skills) ==
  SelectSeq(skills, LAMBDA s : s.code[1] = "B" /\ s.weight = 3)

\* a keep condition of Rule 5 holds: a technical-AI topic, a B-prefixed tag
\* at 0.8, or a technical keyword in the name
C26_Keep(m, topics) ==
  \/ topics \cap TECHNICAL_AI_TOPICS # {}
  \/ \E s \in Range(m.skills) : s.code[1] = "B" /\ s.weight = 8
  \/ C25_NameHas(m, TECH_NAME_KW)

\* C26: catalog-prefix rule. After a pruning run either every B-prefixed tag
\* at 0.3 of a course is gone or all of them are still there, in their order;
\* they are gone iff the course has no technical-AI topic, no B-prefixed tag
\* at 0.8 and no technical keyword in its name; and one more pass of Rule 5
\* over what the run left changes nothing, so that the single pass is the
\* fixed point.
C26_CatalogPrefix ==
  lastOp = "prune" =>
    \A i \in Courses :
      LET m == prev[i]
          topics == get_topics(m.course_id)
          before == C26_B3(m.skills)
          after == C26_B3(mappings[i].skills)
          left == [skills |-> mappings[i].skills, removals |-> <<>>]
      IN /\ after = <<>> \/ after = before
         /\ before # <<>> => (after = <<>> <=> ~C26_Keep(m, topics))
         /\ Rule5(mappings[i], topics, left) = left

\* a run removed both B-prefixed tags at 0.3 of a course in one pass and
\* kept its third tag
C26_Witness ==
  /\ lastOp = "prune"
  /\ C26_B3(prev[1].skills) = << Skill(B1, 3), Skill(B2, 3) >>
  /\ Len(prev[1].skills) = 3
  /\ Len(mappings[1].skills) = 1
  /\ C26_B3(mappings[1].skills) = <<>>

\* the pairs the pruning rules target
C27_Targeted(s) ==
  \/ s \in { Skill(A1, 8), Skill(A1, 3), Skill(A3, 3), Skill(E1, 3) }
  \/ (s.code[1] = "B" /\ s.weight = 3)

\* C27: pruning frame. A pruning run removes only the pairs (A1, 0.8),
\* (A1, 0.3), (A3, 0.3), (E1, 0.3) and (B-prefixed code, 0.3): the tags of
\* every course that are none of these are after the run what they were
\* before it, in the same order, nothing is added, every logged removal is of
\* one of these pairs, and a course that holds none of them keeps its tag
\* list and has no removal logged.
C27_PruningFrame ==
  lastOp = "prune" =>
    /\ \A r \in Entries(removals) : C27_Targeted(Skill(r.code, r.weight))
    /\ \A i \in Courses :
         /\ IsSubList(mappings[i].skills, prev[i].skills)
         /\ SelectSeq(mappings[i].skills, LAMBDA s : ~C27_Targeted(s))
              = SelectSeq(prev[i].skills, LAMBDA s : ~C27_Targeted(s))
         /\ (\A s \in Entries(prev[i].skills) : ~C27_Targeted(s)) =>
              /\ mappings[i].skills = prev[i].skills
              /\ \A r \in Entries(removals) : r.course_id # prev[i].course_id

\* a run removed E1 at 0.3 from a course and kept its E2 at 0.8 and its A5
\* at 0.3
C27_Witness ==
  /\ lastOp = "prune"
  /\ prev[1].skills = << Skill(E1, 3), Skill(E2, 8), Skill(A5, 3) >>
  /\ mappings[1].skills = << Skill(E2, 8), Skill(A5, 3) >>

\* the fields of a course record that a script may change
C28_OwnFields(op) ==
  IF op = "validate" THEN { "tools", "tool_weight" } ELSE { "skills" }

\* C28: each script changes only its own field of a course record. After an
\* assignment run or a pruning run every field of every record but the tag
\* list is what it was before the run (tool list and toolWeight included);
\* after a validator run every field but the tool list and the toolWeight is
\* (the tag list included); the id and the name of a course are those of the
\* initial store after any sequence of runs.
C28_OwnField ==
  /\ lastOp # "none" =>
       /\ DOMAIN mappings = DOMAIN prev
       /\ \A i \in Courses :
            \A f \in DOMAIN prev[i] \ C28_OwnFields(lastOp) : mappings[i][f] = prev[i][f]
  /\ DOMAIN mappings = DOMAIN initial
  /\ \A i \in Courses :
       /\ mappings[i].course_id = initial[i].course_id
       /\ mappings[i].course_name = initial[i].course_name

\* an assignment run added a tag to a course that has tags, tools and a
\* toolWeight, and the validator run after it emptied the tool list and reset
\* the toolWeight of that course
C28_Witness ==
  /\ lastOp = "validate" /\ prevOp = "assign"
  /\ \E i \in Courses :
       /\ initial[i].skills # <<>>
       /\ Len(prev[i].skills) = Len(initial[i].skills) + 1
       /\ mappings[i].skills = prev[i].skills
       /\ prev[i].tools # <<>> /\ prev[i].tool_weight # 0
       /\ mappings[i].tools = <<>> /\ mappings[i].tool_weight = 0

\* C29 as stated: tool evidence behind a secondary A5 tag survives the
\* pipeline. After assign, validate, prune run from the initial store, every
\* course that the assignment gave its A5 tag at 0.3 has at least one
\* vibe-coding tool in its tool list.
C29_ToolEvidence ==
  pipe = 3 =>
    \A i \in Courses :
      (TagsOf(initial[i].skills, A5) = {} /\ Skill(A5, 3) \in Entries(mappings[i].skills))
        => \E t \in Entries(mappings[i].tools) : t \in VIBE_TOOLS
====
